---- MODULE Spec2Model ----
(***************************************************************************)
(* A model of mal-rs: the change-tracked entry values (ChangeTracker,      *)
(* AnimeValues, MangaValues), their XML write body, the enum codecs, the   *)
(* list snapshot decoder and the List orchestrator (add / update).         *)
(*                                                                         *)
(* Text is a sequence of one-character strings, so that formatting and     *)
(* parsing are computed character by character.  Element and field names   *)
(* are never taken apart and stay TLA+ strings.  Option<T> is a sequence   *)
(* of length at most one: None is << >> and Some(x) is <<x>>.              *)
(***************************************************************************)
EXTENDS Integers, Sequences, FiniteSets, TLC

VARIABLES
    cat,                \* which list the entry is on: "anime" or "manga"
    values,             \* the entry's AnimeValues / MangaValues
    last_updated_time,  \* the entry's last_updated_time
    now,                \* the latest reading of the clock (Utc::now())
    last,               \* the operation the caller performed last, and its result
    mutated,            \* history: fields mutated since construction / the last reset
    inp,                \* codec specifications: the input drawn
    out,                \* codec specifications: the output computed
    written,            \* history: the value last written to each mutated field
    call                \* call specification: the List / MAL call in progress

vars == <<cat, values, last_updated_time, now, last, mutated, inp, out, written, call>>

(***************************************************************************)
(* Bounds.                                                                 *)
(***************************************************************************)
\* Clock readings are 0..MaxNow: at most MaxNow entry-form syncs are stamped.
MaxNow == 2
\* from_i32 is applied to every integer of -MaxIndex..MaxIndex.
MaxIndex == 8
\* ChangeTracker values are 0..MaxValue.
MaxValue == 2

None == << >>

Some(x) == <<x>>

IsSome(o) == Len(o) = 1

Unwrap(o) == o[1]

Ok(x) == [ok |-> TRUE, val |-> x]

Err(e) == [ok |-> FALSE, err |-> e]

Range(s) == {s[i] : i \in DOMAIN s}

(***************************************************************************)
(* Enum families.  A declaration is the list of the members with the       *)
(* explicit discriminant each is given in the source (0 for none: no       *)
(* member of these enums is given an explicit 0).  `e as i32` follows      *)
(* Rust's rule: the explicit discriminant, else one more than the member   *)
(* before it.                                                              *)
(***************************************************************************)
WatchStatusDecl ==
    << <<"Watching", 1>>, <<"Completed", 0>>, <<"OnHold", 0>>, <<"Dropped", 0>>,
       <<"PlanToWatch", 6>> >>

ReadStatusDecl ==
    << <<"Reading", 1>>, <<"Completed", 0>>, <<"OnHold", 0>>, <<"Dropped", 0>>,
       <<"PlanToRead", 6>> >>

StatusDecl ==
    << <<"WatchingOrReading", 1>>, <<"Completed", 0>>, <<"OnHold", 0>>,
       <<"Dropped", 0>>, <<"PlanToWatchOrRead", 6>> >>

AiringStatusDecl ==
    << <<"Airing", 1>>, <<"FinishedAiring", 0>>, <<"NotYetAired", 0>> >>

PublishingStatusDecl ==
    << <<"Publishing", 1>>, <<"Finished", 0>>, <<"NotYetPublished", 0>> >>

AnimeTypeDecl ==
    << <<"TV", 1>>, <<"OVA", 0>>, <<"Movie", 0>>, <<"Special", 0>>, <<"ONA", 0>> >>

MangaTypeDecl ==
    << <<"Manga", 1>>, <<"Novel", 0>>, <<"OneShot", 0>>, <<"Doujinshi", 0>>,
       <<"Manhwa", 0>>, <<"Manhua", 0>> >>

Families ==
    {"WatchStatus", "ReadStatus", "Status", "AiringStatus", "PublishingStatus",
     "AnimeType", "MangaType"}

UserStatusFamilies == {"WatchStatus", "ReadStatus", "Status"}

Decl(family) ==
    CASE family = "WatchStatus" -> WatchStatusDecl
      [] family = "ReadStatus" -> ReadStatusDecl
      [] family = "Status" -> StatusDecl
      [] family = "AiringStatus" -> AiringStatusDecl
      [] family = "PublishingStatus" -> PublishingStatusDecl
      [] family = "AnimeType" -> AnimeTypeDecl
      [] family = "MangaType" -> MangaTypeDecl

Members(family) == {Decl(family)[i][1] : i \in DOMAIN Decl(family)}

RECURSIVE Discriminant(_, _)
Discriminant(decl, i) ==
    IF decl[i][2] # 0 THEN decl[i][2]
    ELSE IF i = 1 THEN 0
    ELSE Discriminant(decl, i - 1) + 1

\* a cast that numbers the members 1, 2, 3, ... whatever discriminant they are given
AsI32Ordinal(family, member) ==
    CHOOSE k \in DOMAIN Decl(family) : Decl(family)[k][1] = member

\* `member as i32`
AsI32(family, member) ==
    LET decl == Decl(family)
        i == CHOOSE k \in DOMAIN decl : decl[k][1] = member
    IN  Discriminant(decl, i)

\* a from_i32 that falls back on the default member for an unknown index
WatchStatusFromI32OrDefault(value) ==
    CASE value = 1 -> Some("Watching")
      [] value = 2 -> Some("Completed")
      [] value = 3 -> Some("OnHold")
      [] value = 4 -> Some("Dropped")
      [] OTHER -> Some("PlanToWatch")

WatchStatusFromI32(value) ==
    CASE value = 1 -> Some("Watching")
      [] value = 2 -> Some("Completed")
      [] value = 3 -> Some("OnHold")
      [] value = 4 -> Some("Dropped")
      [] value = 6 -> Some("PlanToWatch")
      [] OTHER -> None

ReadStatusFromI32(value) ==
    CASE value = 1 -> Some("Reading")
      [] value = 2 -> Some("Completed")
      [] value = 3 -> Some("OnHold")
      [] value = 4 -> Some("Dropped")
      [] value = 6 -> Some("PlanToRead")
      [] OTHER -> None

StatusFromI32(value) ==
    CASE value = 1 -> Some("WatchingOrReading")
      [] value = 2 -> Some("Completed")
      [] value = 3 -> Some("OnHold")
      [] value = 4 -> Some("Dropped")
      [] value = 6 -> Some("PlanToWatchOrRead")
      [] OTHER -> None

AiringStatusFromI32(value) ==
    CASE value = 1 -> Some("Airing")
      [] value = 2 -> Some("FinishedAiring")
      [] value = 3 -> Some("NotYetAired")
      [] OTHER -> None

PublishingStatusFromI32(value) ==
    CASE value = 1 -> Some("Publishing")
      [] value = 2 -> Some("Finished")
      [] value = 3 -> Some("NotYetPublished")
      [] OTHER -> None

AnimeTypeFromI32(value) ==
    CASE value = 1 -> Some("TV")
      [] value = 2 -> Some("OVA")
      [] value = 3 -> Some("Movie")
      [] value = 4 -> Some("Special")
      [] value = 5 -> Some("ONA")
      [] OTHER -> None

MangaTypeFromI32(value) ==
    CASE value = 1 -> Some("Manga")
      [] value = 2 -> Some("Novel")
      [] value = 3 -> Some("OneShot")
      [] value = 4 -> Some("Doujinshi")
      [] value = 5 -> Some("Manhwa")
      [] value = 6 -> Some("Manhua")
      [] OTHER -> None

FromI32(family, value) ==
    CASE family = "WatchStatus" -> WatchStatusFromI32(value)
      [] family = "ReadStatus" -> ReadStatusFromI32(value)
      [] family = "Status" -> StatusFromI32(value)
      [] family = "AiringStatus" -> AiringStatusFromI32(value)
      [] family = "PublishingStatus" -> PublishingStatusFromI32(value)
      [] family = "AnimeType" -> AnimeTypeFromI32(value)
      [] family = "MangaType" -> MangaTypeFromI32(value)

(***************************************************************************)
(* from_str: the enum families read from search results, by label.         *)
(***************************************************************************)
LowerChars ==
    <<"a", "b", "c", "d", "e", "f", "g", "h", "i", "j", "k", "l", "m",
      "n", "o", "p", "q", "r", "s", "t", "u", "v", "w", "x", "y", "z">>

UpperChars ==
    <<"A", "B", "C", "D", "E", "F", "G", "H", "I", "J", "K", "L", "M",
      "N", "O", "P", "Q", "R", "S", "T", "U", "V", "W", "X", "Y", "Z">>

\* u8::to_ascii_lowercase: 'A'..'Z' to 'a'..'z', every other character as it is
CharToAsciiLowercase(ch) ==
    IF \E i \in DOMAIN UpperChars : UpperChars[i] = ch
    THEN LowerChars[CHOOSE i \in DOMAIN UpperChars : UpperChars[i] = ch]
    ELSE ch

\* a lower-casing that leaves the text as it is
KeepCase(text) == text

\* str::to_ascii_lowercase
ToAsciiLowercase(text) == [i \in DOMAIN text |-> CharToAsciiLowercase(text[i])]

AnimeTypeFromStr(input) ==
    LET lowered == ToAsciiLowercase(input)
    IN  CASE lowered = <<"t", "v">> -> Some("TV")
          [] lowered = <<"o", "v", "a">> -> Some("OVA")
          [] lowered = <<"m", "o", "v", "i", "e">> -> Some("Movie")
          [] lowered = <<"s", "p", "e", "c", "i", "a", "l">> -> Some("Special")
          [] lowered = <<"o", "n", "a">> -> Some("ONA")
          [] OTHER -> None

AiringStatusFromStr(input) ==
    LET lowered == ToAsciiLowercase(input)
    IN  CASE lowered = <<"c", "u", "r", "r", "e", "n", "t", "l", "y", " ", "a", "i", "r", "i", "n", "g">> -> Some("Airing")
          [] lowered = <<"f", "i", "n", "i", "s", "h", "e", "d", " ", "a", "i", "r", "i", "n", "g">> -> Some("FinishedAiring")
          [] lowered = <<"n", "o", "t", " ", "y", "e", "t", " ", "a", "i", "r", "e", "d">> -> Some("NotYetAired")
          [] OTHER -> None

MangaTypeFromStr(input) ==
    LET lowered == ToAsciiLowercase(input)
    IN  CASE lowered = <<"m", "a", "n", "g", "a">> -> Some("Manga")
          [] lowered = <<"n", "o", "v", "e", "l">> -> Some("Novel")
          [] lowered = <<"o", "n", "e", "-", "s", "h", "o", "t">> -> Some("OneShot")
          [] lowered = <<"d", "o", "u", "j", "i", "n", "s", "h", "i">> -> Some("Doujinshi")
          [] lowered = <<"m", "a", "n", "h", "w", "a">> -> Some("Manhwa")
          [] lowered = <<"m", "a", "n", "h", "u", "a">> -> Some("Manhua")
          [] OTHER -> None

PublishingStatusFromStr(input) ==
    LET lowered == ToAsciiLowercase(input)
    IN  CASE lowered = <<"p", "u", "b", "l", "i", "s", "h", "i", "n", "g">> -> Some("Publishing")
          [] lowered = <<"f", "i", "n", "i", "s", "h", "e", "d">> -> Some("Finished")
          [] lowered = <<"n", "o", "t", " ", "y", "e", "t", " ", "p", "u", "b", "l", "i", "s", "h", "e", "d">> -> Some("NotYetPublished")
          [] OTHER -> None

StrFamilies == {"AnimeType", "AiringStatus", "MangaType", "PublishingStatus"}

FromStr(family, input) ==
    CASE family = "AnimeType" -> AnimeTypeFromStr(input)
      [] family = "AiringStatus" -> AiringStatusFromStr(input)
      [] family = "MangaType" -> MangaTypeFromStr(input)
      [] family = "PublishingStatus" -> PublishingStatusFromStr(input)

\* the default a derived Default would give: the first member
WatchStatusFirst == "Watching"

\* impl Default for WatchStatus / ReadStatus / Status
WatchStatusDefault == "PlanToWatch"

ReadStatusDefault == "PlanToRead"

StatusDefault == "PlanToWatchOrRead"

(***************************************************************************)
(* Text formatting.                                                        *)
(***************************************************************************)
DigitChars == <<"0", "1", "2", "3", "4", "5", "6", "7", "8", "9">>

DigitChar(d) == DigitChars[d + 1]

\* n.to_string() of a non-negative integer
RECURSIVE Decimal(_)
Decimal(n) ==
    IF n < 10 THEN <<DigitChar(n)>>
    ELSE Decimal(n \div 10) \o <<DigitChar(n % 10)>>

\* a non-negative integer zero-padded to at least `width` digits
RECURSIVE ZeroPad(_, _)
ZeroPad(text, width) ==
    IF Len(text) >= width THEN text ELSE ZeroPad(<<"0">> \o text, width)

\* n.to_string() of an i32
SignedDecimal(n) == IF n < 0 THEN <<"-">> \o Decimal(0 - n) ELSE Decimal(n)

\* chrono's %Y: four digits for the years 0..9999, else a sign and four or more
YearText(y) ==
    IF 0 <= y /\ y <= 9999 THEN ZeroPad(Decimal(y), 4)
    ELSE IF y < 0 THEN <<"-">> \o ZeroPad(Decimal(0 - y), 4)
    ELSE <<"+">> \o ZeroPad(Decimal(y), 4)

\* a date_to_str that writes the day before the month
DateToStrDayFirst(date) ==
    IF IsSome(date)
    THEN LET d == Unwrap(date)
         IN  ZeroPad(Decimal(d.d), 2) \o ZeroPad(Decimal(d.m), 2) \o YearText(d.y)
    ELSE <<"0", "0", "0", "0", "0", "0", "0", "0">>

\* date_to_str: format("%m%d%Y"), or the all-zero date for None
DateToStr(date) ==
    IF IsSome(date)
    THEN LET d == Unwrap(date)
         IN  ZeroPad(Decimal(d.m), 2) \o ZeroPad(Decimal(d.d), 2) \o YearText(d.y)
    ELSE <<"0", "0", "0", "0", "0", "0", "0", "0">>

\* concat_by_delimeter: every tag followed by the delimiter
RECURSIVE ConcatByDelimeter(_, _)
ConcatByDelimeter(tags, delim) ==
    IF tags = << >> THEN << >>
    ELSE Head(tags) \o <<delim>> \o ConcatByDelimeter(Tail(tags), delim)

(***************************************************************************)
(* Text parsing: str::parse of the integer types, chrono's                 *)
(* NaiveDate::parse_from_str with "%Y-%m-%d", and str::split.              *)
(***************************************************************************)
IsDigit(ch) == \E d \in 0..9 : DigitChar(d) = ch

DigitValue(ch) == CHOOSE d \in 0..9 : DigitChar(d) = ch

IsWhitespace(ch) == ch \in {" ", "\t", "\n"}

AllDigits(text) == \A i \in DOMAIN text : IsDigit(text[i])

\* the number a text of digits denotes
RECURSIVE DigitsValue(_)
DigitsValue(text) ==
    IF text = << >> THEN 0
    ELSE DigitsValue(SubSeq(text, 1, Len(text) - 1)) * 10 + DigitValue(text[Len(text)])

RECURSIVE StripZeros(_)
StripZeros(text) ==
    IF Len(text) > 1 /\ text[1] = "0" THEN StripZeros(Tail(text)) ELSE text

\* a <= b, for texts of digits without leading zeros
MagnitudeLeq(a, b) ==
    \/ Len(a) < Len(b)
    \/ /\ Len(a) = Len(b)
       /\ \/ a = b
          \/ \E i \in DOMAIN a :
                /\ DigitValue(a[i]) < DigitValue(b[i])
                /\ \A j \in 1..(i - 1) : a[j] = b[j]

IntTypes == {"u8", "u32", "i32", "i64"}

SignedTypes == {"i32", "i64"}

\* T::MAX as text
MaxMagnitude(type) ==
    CASE type = "u8" -> <<"2", "5", "5">>
      [] type = "u32" -> <<"4", "2", "9", "4", "9", "6", "7", "2", "9", "5">>
      [] type = "i32" -> <<"2", "1", "4", "7", "4", "8", "3", "6", "4", "7">>
      [] type = "i64" -> <<"9", "2", "2", "3", "3", "7", "2", "0", "3", "6", "8", "5",
                           "4", "7", "7", "5", "8", "0", "7">>

\* -T::MIN as text, for the signed types
MinMagnitude(type) ==
    CASE type = "i32" -> <<"2", "1", "4", "7", "4", "8", "3", "6", "4", "8">>
      [] type = "i64" -> <<"9", "2", "2", "3", "3", "7", "2", "0", "3", "6", "8", "5",
                           "4", "7", "7", "5", "8", "0", "8">>

\* text.parse::<T>() for an integer type: an optional "+", or "-" for a signed
\* type, then one or more digits and nothing else; None for an Err
ParseInt(text, type) ==
    LET neg == type \in SignedTypes /\ text # << >> /\ text[1] = "-"
        signed == text # << >> /\ (text[1] = "+" \/ neg)
        digits == IF signed THEN Tail(text) ELSE text
        limit == IF neg THEN MinMagnitude(type) ELSE MaxMagnitude(type)
    IN  IF digits = << >> \/ ~AllDigits(digits) THEN None
        ELSE IF ~MagnitudeLeq(StripZeros(digits), limit) THEN None
        ELSE Some(IF neg THEN 0 - DigitsValue(digits) ELSE DigitsValue(digits))

RECURSIVE TrimLeft(_)
TrimLeft(text) ==
    IF text # << >> /\ IsWhitespace(text[1]) THEN TrimLeft(Tail(text)) ELSE text

\* how many digits start the text, at most `max`
RECURSIVE DigitPrefix(_, _)
DigitPrefix(text, max) ==
    IF max = 0 \/ text = << >> \/ ~IsDigit(text[1]) THEN 0
    ELSE 1 + DigitPrefix(Tail(text), max - 1)

Drop(text, n) == SubSeq(text, n + 1, Len(text))

\* the exponent of a decimal float: an optional sign, digits, nothing else
IsExponent(text) ==
    LET digits == IF text # << >> /\ text[1] \in {"+", "-"} THEN Tail(text) ELSE text
    IN  digits # << >> /\ AllDigits(digits)

\* the rest of a decimal after its fraction of `f` digits: nothing, or an
\* exponent
DecimalAfterFrac(i, f, afterFrac) ==
    IF i = 0 /\ f = 0 THEN FALSE
    ELSE IF afterFrac = << >> THEN TRUE
    ELSE afterFrac[1] \in {"e", "E"} /\ IsExponent(Tail(afterFrac))

\* the rest of a decimal after its `i` integer digits: nothing, an exponent,
\* or "." and a fraction
DecimalAfterInt(i, afterInt) ==
    IF afterInt = << >> THEN TRUE
    ELSE IF afterInt[1] \in {"e", "E"} THEN i > 0 /\ IsExponent(Tail(afterInt))
    ELSE IF afterInt[1] # "." THEN FALSE
    ELSE DecimalAfterFrac(i, DigitPrefix(Tail(afterInt), Len(afterInt)),
                          Drop(Tail(afterInt), DigitPrefix(Tail(afterInt), Len(afterInt))))

\* core::num::dec2flt::parse::parse_decimal accepts the text: digits, then
\* optionally "." and digits (a digit on one side at least), then optionally
\* an exponent
IsDecimal(text) ==
    IF text = << >> THEN FALSE
    ELSE DecimalAfterInt(DigitPrefix(text, Len(text)),
                         Drop(text, DigitPrefix(text, Len(text))))

\* text.parse::<f32>(): an optional sign, then a decimal, "inf" or "NaN".  The
\* float is held as the text that denotes it; None for an Err
ParseF32(text) ==
    IF text = << >> THEN None
    ELSE IF \/ IsDecimal(IF text[1] \in {"+", "-"} THEN Tail(text) ELSE text)
            \/ (IF text[1] \in {"+", "-"} THEN Tail(text) ELSE text)
                   \in {<<"i", "n", "f">>, <<"N", "a", "N">>}
    THEN Some(text)
    ELSE None

\* text.parse::<T>() of any type read from a document; String never fails
ParseAs(text, type) ==
    IF type = "String" THEN Some(text)
    ELSE IF type = "f32" THEN ParseF32(text)
    ELSE ParseInt(text, type)

IsLeapYear(y) == y % 4 = 0 /\ (y % 100 # 0 \/ y % 400 = 0)

DaysInMonth(y, m) ==
    IF m = 2 THEN (IF IsLeapYear(y) THEN 29 ELSE 28)
    ELSE IF m \in {4, 6, 9, 11} THEN 30 ELSE 31

\* NaiveDate::from_ymd_opt
FromYmdOpt(y, m, d) ==
    IF /\ 0 - 262144 <= y /\ y <= 262143
       /\ 1 <= m /\ m <= 12
       /\ 1 <= d /\ d <= DaysInMonth(y, m)
    THEN Some([y |-> y, m |-> m, d |-> d])
    ELSE None

\* "%d" and nothing after it: one or two digits end the text
ParseDay(y, m, text, nd) ==
    IF nd = 0 \/ Drop(text, nd) # << >> THEN None
    ELSE FromYmdOpt(y, m, DigitsValue(SubSeq(text, 1, nd)))

\* "%m-": one or two digits and "-"; the day may follow white space
ParseMonth(y, text, nm) ==
    IF nm = 0 \/ Len(text) = nm \/ text[nm + 1] # "-" THEN None
    ELSE ParseDay(y, DigitsValue(SubSeq(text, 1, nm)),
                  TrimLeft(Drop(text, nm + 1)),
                  DigitPrefix(TrimLeft(Drop(text, nm + 1)), 2))

\* "%Y-": `ny` digits, at most six of them significant, and "-"; the month
\* may follow white space
ParseYear(negative, text, ny) ==
    IF ny = 0 \/ Len(StripZeros(SubSeq(text, 1, ny))) > 6 THEN None
    ELSE IF Len(text) = ny \/ text[ny + 1] # "-" THEN None
    ELSE ParseMonth(IF negative THEN 0 - DigitsValue(SubSeq(text, 1, ny))
                    ELSE DigitsValue(SubSeq(text, 1, ny)),
                    TrimLeft(Drop(text, ny + 1)),
                    DigitPrefix(TrimLeft(Drop(text, ny + 1)), 2))

\* the year is up to four digits, or a sign and any number of digits
ParseSignedYear(text) ==
    IF text # << >> /\ text[1] \in {"+", "-"}
    THEN ParseYear(text[1] = "-", Tail(text), DigitPrefix(Tail(text), Len(text)))
    ELSE ParseYear(FALSE, text, DigitPrefix(text, 4))

\* NaiveDate::parse_from_str(text, "%Y-%m-%d").ok(): each number may follow
\* white space; nothing may follow the day
NaiveDateParse(text) == ParseSignedYear(TrimLeft(text))

ZeroDate == <<"0", "0", "0", "0", "-", "0", "0", "-", "0", "0">>

\* parse_str_date
ParseStrDate(date) == IF date # ZeroDate THEN NaiveDateParse(date) ELSE None

IsPrefix(p, text) == Len(p) <= Len(text) /\ SubSeq(text, 1, Len(p)) = p

\* string.split(delim), which yields the piece `cur` in progress last
RECURSIVE Split(_, _, _)
Split(text, delim, cur) ==
    IF text = << >> THEN <<cur>>
    ELSE IF IsPrefix(delim, text)
         THEN <<cur>> \o Split(Drop(text, Len(delim)), delim, << >>)
         ELSE Split(Tail(text), delim, cur \o <<text[1]>>)

\* skip_while(|s| s.is_empty())
RECURSIVE SkipWhileEmpty(_)
SkipWhileEmpty(pieces) ==
    IF pieces # << >> /\ Head(pieces) = << >> THEN SkipWhileEmpty(Tail(pieces))
    ELSE pieces

\* split_into_vec
SplitIntoVec(string, delim) == SkipWhileEmpty(Split(string, delim, << >>))

(***************************************************************************)
(* ChangeTracker<T>                                                        *)
(***************************************************************************)
ChangeTrackerNew(value) == [value |-> value, changed |-> FALSE]

\* a set that compares: the tracker is marked only if the value differs
ChangeTrackerSetUnlessEqual(tracker, value) ==
    [value |-> value, changed |-> tracker.changed \/ tracker.value # value]

ChangeTrackerSet(tracker, value) == [value |-> value, changed |-> TRUE]

(***************************************************************************)
(* AnimeValues / MangaValues.  A field table lists, in the order of        *)
(* generate_xml, each field with its type and the name of its element in   *)
(* the write body.                                                         *)
(***************************************************************************)
Cats == {"anime", "manga"}

AnimeFieldTable ==
    << [field |-> "watched_episodes", type |-> "u32", xml |-> "episode"],
       [field |-> "status", type |-> "status", xml |-> "status"],
       [field |-> "start_date", type |-> "date", xml |-> "date_start"],
       [field |-> "finish_date", type |-> "date", xml |-> "date_finish"],
       [field |-> "score", type |-> "u8", xml |-> "score"],
       [field |-> "rewatching", type |-> "bool", xml |-> "enable_rewatching"],
       [field |-> "tags", type |-> "tags", xml |-> "tags"] >>

MangaFieldTable ==
    << [field |-> "chapter", type |-> "u32", xml |-> "chapter"],
       [field |-> "volume", type |-> "u32", xml |-> "volume"],
       [field |-> "status", type |-> "status", xml |-> "status"],
       [field |-> "score", type |-> "u8", xml |-> "score"],
       [field |-> "start_date", type |-> "date", xml |-> "date_start"],
       [field |-> "finish_date", type |-> "date", xml |-> "date_finish"],
       [field |-> "rereading", type |-> "bool", xml |-> "enable_rereading"],
       [field |-> "tags", type |-> "tags", xml |-> "tags"] >>

FieldTable(c) == IF c = "anime" THEN AnimeFieldTable ELSE MangaFieldTable

Fields(c) == {FieldTable(c)[i].field : i \in DOMAIN FieldTable(c)}

FieldSpec(c, f) ==
    FieldTable(c)[CHOOSE i \in DOMAIN FieldTable(c) : FieldTable(c)[i].field = f]

StatusFamily(c) == IF c = "anime" THEN "WatchStatus" ELSE "ReadStatus"

\* #[derive(Default)]: 0, None, the status enum's Default, false, the empty Vec
DefaultValue(c, type) ==
    CASE type = "u32" -> 0
      [] type = "u8" -> 0
      [] type = "date" -> None
      [] type = "status" -> IF c = "anime" THEN WatchStatusDefault ELSE ReadStatusDefault
      [] type = "bool" -> FALSE
      [] type = "tags" -> << >>

\* AnimeValues::new / MangaValues::new: every tracker is ChangeTracker::default()
ValuesNew(c) ==
    [f \in Fields(c) |->
        [value |-> DefaultValue(c, FieldSpec(c, f).type), changed |-> FALSE]]

\* a setter that also clears the changed flag of every other field
ValuesSetAlone(vals, f, v) ==
    [g \in DOMAIN vals |->
        IF g = f THEN ChangeTrackerSet(vals[g], v) ELSE [vals[g] EXCEPT !.changed = FALSE]]

\* a setter that assigns the value without going through the tracker's set
ValuesSetDirect(vals, f, v) == [vals EXCEPT ![f].value = v]

\* a setter that marks the field changed only when the value differs
ValuesSetUnlessEqual(vals, f, v) ==
    [vals EXCEPT ![f] = ChangeTrackerSetUnlessEqual(vals[f], v)]

\* set_watched_episodes, set_status, ...: self.<field>.set(v)
ValuesSet(vals, f, v) == [vals EXCEPT ![f] = ChangeTrackerSet(vals[f], v)]

\* watched_episodes(), status(), ..., tags(): the field's value; self is not changed
Getter(vals, f) == vals[f].value

ValuesAfterGetter(vals, f) == vals

\* a tags_mut that marks the tags changed only when the caller's edit changes them
TagsMutOnEdit(vals, newTags) ==
    [vals EXCEPT !["tags"] =
        [value |-> newTags, changed |-> @.changed \/ @.value # newTags]]

\* tags_mut(): marks the tags changed and hands out the collection, which the
\* caller leaves as `newTags` (the same value when it makes no edit)
TagsMut(vals, newTags) ==
    LET marked == [vals EXCEPT !["tags"].changed = TRUE]
    IN  [marked EXCEPT !["tags"].value = newTags]

\* the setters of AnimeValues, each with the field its body assigns
AnimeSetters ==
    [set_watched_episodes |-> "watched_episodes", set_start_date |-> "start_date",
     set_finish_date |-> "finish_date", set_status |-> "status", set_score |-> "score",
     set_rewatching |-> "rewatching"]

\* the setters of MangaValues, each with the field its body assigns
MangaSetters ==
    [set_read_chapters |-> "chapter", set_read_volumes |-> "volume",
     set_status |-> "status", set_score |-> "score", set_start_date |-> "start_date",
     set_finish_date |-> "finish_date", set_rereading |-> "rereading"]

Setters(c) == IF c = "anime" THEN AnimeSetters ELSE MangaSetters

\* the getters of AnimeValues, each with the field its body reads
AnimeGetters ==
    [watched_episodes |-> "watched_episodes", start_date |-> "start_date",
     finish_date |-> "finish_date", status |-> "status", score |-> "score",
     rewatching |-> "rewatching", tags |-> "tags"]

\* the getters of MangaValues, each with the field its body reads
MangaGetters ==
    [chapter |-> "chapter", volume |-> "volume", status |-> "status", score |-> "score",
     start_date |-> "start_date", finish_date |-> "finish_date",
     rereading |-> "rereading", tags |-> "tags"]

Getters(c) == IF c = "anime" THEN AnimeGetters ELSE MangaGetters

Mutators(c) == DOMAIN Setters(c) \cup {"tags_mut"}

\* the field a mutator writes
MutatorField(c, method) == IF method = "tags_mut" THEN "tags" ELSE Setters(c)[method]

\* values.<method>(v); for tags_mut the caller leaves the collection as v
CallMutator(c, vals, method, v) ==
    IF method = "tags_mut" THEN TagsMut(vals, v)
    ELSE ValuesSet(vals, Setters(c)[method], v)

\* values.<method>()
CallGetter(c, vals, method) == Getter(vals, Getters(c)[method])

\* the text of one field in the write body
XmlValue(c, type, v) ==
    CASE type = "u32" -> Decimal(v)
      [] type = "u8" -> Decimal(v)
      [] type = "status" -> Decimal(AsI32(StatusFamily(c), v))
      [] type = "date" -> DateToStr(v)
      [] type = "bool" -> Decimal(IF v THEN 1 ELSE 0)
      [] type = "tags" -> ConcatByDelimeter(v, ",")

\* an add_changed_values that writes every field, changed or not
RECURSIVE AddAllValues(_, _, _)
AddAllValues(c, vals, i) ==
    IF i > Len(FieldTable(c)) THEN << >>
    ELSE LET spec == FieldTable(c)[i]
         IN  <<[name |-> spec.xml,
                text |-> XmlValue(c, spec.type, vals[spec.field].value)]>>
             \o AddAllValues(c, vals, i + 1)

\* add_changed_values: one child per changed field, in the table's order
RECURSIVE AddChangedValues(_, _, _)
AddChangedValues(c, vals, i) ==
    IF i > Len(FieldTable(c)) THEN << >>
    ELSE LET spec == FieldTable(c)[i]
             rest == AddChangedValues(c, vals, i + 1)
         IN  IF vals[spec.field].changed
             THEN <<[name |-> spec.xml,
                     text |-> XmlValue(c, spec.type, vals[spec.field].value)]>> \o rest
             ELSE rest

\* generate_xml: the element "entry" with the changed fields as its children
\* (the element stands for its serialisation, which is one to one)
GenerateXml(c, vals) == [name |-> "entry", children |-> AddChangedValues(c, vals, 1)]

\* a reset_changed_fields whose field list leaves out the tags
ResetAllButTags(vals) ==
    [f \in DOMAIN vals |->
        IF f = "tags" THEN vals[f] ELSE [vals[f] EXCEPT !.changed = FALSE]]

\* reset_changed_fields
ResetChangedFields(vals) == [f \in DOMAIN vals |-> [vals[f] EXCEPT !.changed = FALSE]]

(***************************************************************************)
(* Decoding a list snapshot entry.  A document is the sequence of the       *)
(* entry element's children, each a name and its text.  A decoder stops at  *)
(* the first step that fails (`?`), so its result is the first error among  *)
(* its steps taken in the order of the source.                              *)
(***************************************************************************)
HasChild(xml, name) == \E i \in DOMAIN xml : xml[i].name = name

\* elem.children().find(|c| c.name() == name)
FindChild(xml, name) ==
    xml[CHOOSE i \in DOMAIN xml :
            xml[i].name = name /\ \A j \in 1..(i - 1) : xml[j].name # name]

\* Option::ok_or_else
OkOrElse(option, err) == IF IsSome(option) THEN Ok(Unwrap(option)) ELSE Err(err)

\* the step of a field read as text and passed to a function that cannot fail
MapOk(step, val) == IF step.ok THEN Ok(val) ELSE step

\* util::parse_xml_child::<T>
ParseXmlChild(xml, name, type) ==
    IF ~HasChild(xml, name) THEN Err(<<"MissingXMLNode", name>>)
    ELSE OkOrElse(ParseAs(FindChild(xml, name).text, type), <<"ConversionFailed", name>>)

\* util::get_xml_child_text: the text of the child, or the missing-node error
GetXmlChildText(xml, name) ==
    IF ~HasChild(xml, name) THEN Err(<<"MissingXMLNode", name>>)
    ELSE Ok(FindChild(xml, name).text)

\* text?.parse::<T>()?: the parse error carries no field name
ParseText(text, type) ==
    IF ~text.ok THEN text
    ELSE OkOrElse(ParseAs(text.val, type),
                  <<IF type = "f32" THEN "ParseFloatError" ELSE "ParseIntError">>)

\* get_child(name)?.parse::<T>()?
GetChildParsed(xml, name, type) == ParseText(GetXmlChildText(xml, name), type)

AllOk(steps) == \A i \in DOMAIN steps : steps[i].ok

FirstErr(steps) ==
    steps[CHOOSE i \in DOMAIN steps :
              ~steps[i].ok /\ \A j \in 1..(i - 1) : steps[j].ok]

\* a flag decoder that passes the failure on
FlagStrict(step) == IF step.ok THEN Ok(step.val = 1) ELSE step

\* a flag decoder that takes every number but 0 for true
FlagNonZero(step) == Ok(IF step.ok THEN step.val # 0 ELSE FALSE)

\* .map(|v| v == 1).unwrap_or(false) on the parsed flag: a failure is false
FlagOrFalse(step) == Ok(IF step.ok THEN step.val = 1 ELSE FALSE)

\* get_child(name)?.parse::<u8>().map(|v| v == 1).unwrap_or(false): only the
\* missing child is passed on
FlagOfText(text) == IF ~text.ok THEN text ELSE FlagOrFalse(ParseText(text, "u8"))

\* a date read with `?` on the parse in place of .ok(): a text that is no
\* date fails the decode
DateStepOrErr(text) ==
    IF ~text.ok THEN text
    ELSE IF text.val = ZeroDate THEN Ok(None)
    ELSE IF NaiveDateParse(text.val) = None THEN Err(<<"ParseError">>)
    ELSE Ok(NaiveDateParse(text.val))

\* util::parse_str_date(&text?)
DateStep(text) == MapOk(text, ParseStrDate(text.val))

\* util::split_into_vec(&text?, delim)
SplitStep(text, delim) == MapOk(text, SplitIntoVec(text.val, delim))

\* <family>::from_i32(index?).ok_or_else(|| error(index))?
IndexStep(index, family, error) ==
    IF ~index.ok THEN index
    ELSE OkOrElse(FromI32(family, index.val), <<error, index.val>>)

\* <family>::from_i32(index?).ok_or_else(|| error(index.to_string()))?
IndexToStringStep(index, family, error) ==
    IF ~index.ok THEN index
    ELSE OkOrElse(FromI32(family, index.val), <<error, SignedDecimal(index.val)>>)

\* <family>::from_i32(text?.parse()?).ok_or_else(|| error(text))?
TextIndexStep(text, index, family, error) ==
    IF ~index.ok THEN index
    ELSE OkOrElse(FromI32(family, index.val), <<error, text.val>>)

\* <family>::from_str(&text?).ok_or_else(|| error(text))?
LabelStep(text, family, error) ==
    IF ~text.ok THEN text
    ELSE OkOrElse(FromStr(family, text.val), <<error, text.val>>)

\* a struct literal: the fields `names` take the values of `steps`, which are
\* evaluated in order and each ends the decoder when it fails
Decoded(names, steps) ==
    IF ~AllOk(steps) THEN FirstErr(steps)
    ELSE Ok([f \in Range(names) |->
                steps[CHOOSE i \in DOMAIN names : names[i] = f].val])

\* .into() on every field: a ChangeTracker that starts unchanged
Tracked(decoded) ==
    IF ~decoded.ok THEN decoded
    ELSE Ok([f \in DOMAIN decoded.val |-> ChangeTrackerNew(decoded.val[f])])

\* AnimeValues::parse
AnimeValuesParse(xml) ==
    Tracked(Decoded(
        <<"watched_episodes", "start_date", "finish_date", "status", "score",
          "rewatching", "tags">>,
        <<ParseXmlChild(xml, "my_watched_episodes", "u32"),
          DateStep(ParseXmlChild(xml, "my_start_date", "String")),
          DateStep(ParseXmlChild(xml, "my_finish_date", "String")),
          IndexStep(ParseXmlChild(xml, "my_status", "i32"),
                    "WatchStatus", "UnknownWatchStatus"),
          ParseXmlChild(xml, "my_score", "u8"),
          FlagOrFalse(ParseXmlChild(xml, "my_rewatching", "u8")),
          SplitStep(ParseXmlChild(xml, "my_tags", "String"), <<",">>)>>))

\* MangaValues::parse
MangaValuesParse(xml) ==
    Tracked(Decoded(
        <<"chapter", "volume", "status", "score", "start_date", "finish_date",
          "rereading", "tags">>,
        <<GetChildParsed(xml, "my_read_chapters", "u32"),
          GetChildParsed(xml, "my_read_volumes", "u32"),
          IndexStep(GetChildParsed(xml, "my_status", "i32"),
                    "ReadStatus", "UnknownReadStatus"),
          GetChildParsed(xml, "my_score", "u8"),
          DateStep(GetXmlChildText(xml, "my_start_date")),
          DateStep(GetXmlChildText(xml, "my_finish_date")),
          FlagOfText(GetXmlChildText(xml, "my_rereadingg")),
          SplitStep(GetXmlChildText(xml, "my_tags"), <<",">>)>>))

ValuesParse(c, xml) == IF c = "anime" THEN AnimeValuesParse(xml) ELSE MangaValuesParse(xml)

\* the digits of an integer text, without its sign and leading zeros
Magnitude(text) ==
    StripZeros(IF text # << >> /\ text[1] \in {"+", "-"} THEN Tail(text) ELSE text)

\* Utc.timestamp(secs, 0) panics unless the seconds fall on a date chrono can
\* represent: -262144-01-01T00:00:00 to 262143-12-31T23:59:59
TimestampInRange(text) ==
    MagnitudeLeq(Magnitude(text),
                 IF text[1] = "-"
                 THEN <<"8", "3", "3", "4", "6", "3", "2", "9", "3", "7", "6", "0", "0">>
                 ELSE <<"8", "2", "1", "0", "2", "9", "8", "4", "1", "2", "7", "9", "9">>)

\* Utc.timestamp(<the parsed child>, 0): a panic is the error <<"Panic", ...>>
Timestamp(text, secs) ==
    IF ~secs.ok THEN secs
    ELSE IF ~TimestampInRange(text.val) THEN Err(<<"Panic", "Utc.timestamp">>)
    ELSE secs

\* the entry struct literal: series_info is built first, then the fields
\* last_updated_time and values in that order
EntryOf(info, updated, vals) ==
    IF ~info.ok THEN info
    ELSE IF ~updated.ok THEN updated
    ELSE IF ~vals.ok THEN vals
    ELSE Ok([series_info |-> info.val,
             last_updated_time |-> updated.val,
             values |-> vals.val])

\* AnimeEntry::parse
AnimeEntryParse(xml) ==
    EntryOf(
        Decoded(
            <<"id", "title", "synonyms", "episodes", "airing_status", "series_type",
              "start_date", "end_date", "image_url">>,
            <<ParseXmlChild(xml, "series_animedb_id", "u32"),
              ParseXmlChild(xml, "series_title", "String"),
              SplitStep(ParseXmlChild(xml, "series_synonyms", "String"), <<";", " ">>),
              ParseXmlChild(xml, "series_episodes", "u32"),
              IndexToStringStep(ParseXmlChild(xml, "series_status", "i32"),
                                "AiringStatus", "UnknownAirStatus"),
              IndexToStringStep(ParseXmlChild(xml, "series_type", "i32"),
                                "AnimeType", "UnknownSeriesType"),
              DateStep(ParseXmlChild(xml, "series_start", "String")),
              DateStep(ParseXmlChild(xml, "series_end", "String")),
              ParseXmlChild(xml, "series_image", "String")>>),
        Timestamp(ParseXmlChild(xml, "my_last_updated", "String"),
                  ParseXmlChild(xml, "my_last_updated", "i64")),
        AnimeValuesParse(xml))

\* MangaEntry::parse
MangaEntryParse(xml) ==
    EntryOf(
        Decoded(
            <<"id", "title", "synonyms", "series_type", "chapters", "volumes",
              "publishing_status", "start_date", "end_date", "image_url">>,
            <<GetChildParsed(xml, "series_mangadb_id", "u32"),
              GetXmlChildText(xml, "series_title"),
              SplitStep(GetXmlChildText(xml, "series_synonyms"), <<";", " ">>),
              TextIndexStep(GetXmlChildText(xml, "series_type"),
                            GetChildParsed(xml, "series_type", "i32"),
                            "MangaType", "UnknownSeriesType"),
              GetChildParsed(xml, "series_chapters", "u32"),
              GetChildParsed(xml, "series_volumes", "u32"),
              TextIndexStep(GetXmlChildText(xml, "series_status"),
                            GetChildParsed(xml, "series_status", "i32"),
                            "PublishingStatus", "UnknownPublishStatus"),
              DateStep(GetXmlChildText(xml, "series_start")),
              DateStep(GetXmlChildText(xml, "series_end")),
              GetXmlChildText(xml, "series_image")>>),
        Timestamp(GetXmlChildText(xml, "my_last_updated"),
                  GetChildParsed(xml, "my_last_updated", "i64")),
        MangaValuesParse(xml))

EntryParse(c, xml) == IF c = "anime" THEN AnimeEntryParse(xml) ELSE MangaEntryParse(xml)

\* AnimeUserInfo::parse
AnimeUserInfoParse(xml) ==
    Decoded(
        <<"user_id", "watching", "completed", "on_hold", "dropped", "plan_to_watch",
          "days_spent_watching">>,
        <<ParseXmlChild(xml, "user_id", "u32"),
          ParseXmlChild(xml, "user_watching", "u32"),
          ParseXmlChild(xml, "user_completed", "u32"),
          ParseXmlChild(xml, "user_onhold", "u32"),
          ParseXmlChild(xml, "user_dropped", "u32"),
          ParseXmlChild(xml, "user_plantowatch", "u32"),
          ParseXmlChild(xml, "user_days_spent_watching", "f32")>>)

\* MangaUserInfo::parse
MangaUserInfoParse(xml) ==
    Decoded(
        <<"user_id", "reading", "completed", "on_hold", "dropped", "plan_to_read",
          "days_spent_watching">>,
        <<GetChildParsed(xml, "user_id", "u32"),
          GetChildParsed(xml, "user_reading", "u32"),
          GetChildParsed(xml, "user_completed", "u32"),
          GetChildParsed(xml, "user_onhold", "u32"),
          GetChildParsed(xml, "user_dropped", "u32"),
          GetChildParsed(xml, "user_plantoread", "u32"),
          GetChildParsed(xml, "user_days_spent_watching", "f32")>>)

UserInfoParse(c, xml) ==
    IF c = "anime" THEN AnimeUserInfoParse(xml) ELSE MangaUserInfoParse(xml)

\* AnimeInfo::parse_search_result
AnimeParseSearchResult(xml) ==
    Decoded(
        <<"id", "title", "synonyms", "episodes", "airing_status", "series_type",
          "start_date", "end_date", "image_url">>,
        <<ParseXmlChild(xml, "id", "u32"),
          ParseXmlChild(xml, "title", "String"),
          SplitStep(ParseXmlChild(xml, "synonyms", "String"), <<";", " ">>),
          ParseXmlChild(xml, "episodes", "u32"),
          LabelStep(ParseXmlChild(xml, "status", "String"),
                    "AiringStatus", "UnknownAirStatus"),
          LabelStep(ParseXmlChild(xml, "type", "String"),
                    "AnimeType", "UnknownSeriesType"),
          DateStep(ParseXmlChild(xml, "start_date", "String")),
          DateStep(ParseXmlChild(xml, "end_date", "String")),
          ParseXmlChild(xml, "image", "String")>>)

\* MangaInfo::parse_search_result
MangaParseSearchResult(xml) ==
    Decoded(
        <<"id", "title", "synonyms", "series_type", "chapters", "volumes",
          "publishing_status", "start_date", "end_date", "image_url">>,
        <<GetChildParsed(xml, "id", "u32"),
          GetXmlChildText(xml, "title"),
          SplitStep(GetXmlChildText(xml, "synonyms"), <<";", " ">>),
          LabelStep(GetXmlChildText(xml, "type"), "MangaType", "UnknownSeriesType"),
          GetChildParsed(xml, "chapters", "u32"),
          GetChildParsed(xml, "volumes", "u32"),
          LabelStep(GetXmlChildText(xml, "status"),
                    "PublishingStatus", "UnknownPublishStatus"),
          DateStep(GetXmlChildText(xml, "start_date")),
          DateStep(GetXmlChildText(xml, "end_date")),
          GetXmlChildText(xml, "image")>>)

ParseSearchResult(c, xml) ==
    IF c = "anime" THEN AnimeParseSearchResult(xml) ELSE MangaParseSearchResult(xml)

(***************************************************************************)
(* PartialEq of the series and of the anime entry (the manga entry has no  *)
(* PartialEq).                                                             *)
(***************************************************************************)
\* a derived PartialEq: every field is compared
AnimeInfoEqDerived(self, other) == self = other

\* impl PartialEq for AnimeInfo
AnimeInfoEq(self, other) == self.id = other.id

\* impl PartialEq for MangaInfo
MangaInfoEq(self, other) == self.id = other.id

\* impl PartialEq for AnimeEntry
AnimeEntryEq(self, other) == AnimeInfoEq(self.series_info, other.series_info)

EqTypes == {"AnimeInfo", "MangaInfo", "AnimeEntry"}

Eq(type, self, other) ==
    CASE type = "AnimeInfo" -> AnimeInfoEq(self, other)
      [] type = "MangaInfo" -> MangaInfoEq(self, other)
      [] type = "AnimeEntry" -> AnimeEntryEq(self, other)

(***************************************************************************)
(* List snapshot entries to decode: an entry of each list as the service   *)
(* sends it, one with every field filled and one plain (nothing watched or *)
(* read, no dates, no tags), and each of them with one child given another *)
(* text or taken out.                                                      *)
(***************************************************************************)
AnimeDocRich ==
    << [name |-> "series_animedb_id", text |-> <<"4", "2", "2", "4">>],
       [name |-> "series_title", text |-> <<"T">>],
       [name |-> "series_synonyms", text |-> <<"A", ";", " ", "B">>],
       [name |-> "series_type", text |-> <<"1">>],
       [name |-> "series_episodes", text |-> <<"2", "5">>],
       [name |-> "series_status", text |-> <<"2">>],
       [name |-> "series_start", text |-> <<"2", "0", "0", "8", "-", "1", "0", "-", "0", "2">>],
       [name |-> "series_end", text |-> <<"2", "0", "0", "9", "-", "0", "3", "-", "2", "6">>],
       [name |-> "series_image", text |-> <<"u">>],
       [name |-> "my_id", text |-> <<"0">>],
       [name |-> "my_watched_episodes", text |-> <<"5">>],
       [name |-> "my_start_date", text |-> <<"2", "0", "1", "6", "-", "0", "2", "-", "2", "9">>],
       [name |-> "my_finish_date", text |-> <<"0", "0", "0", "0", "-", "0", "0", "-", "0", "0">>],
       [name |-> "my_score", text |-> <<"7">>],
       [name |-> "my_status", text |-> <<"1">>],
       [name |-> "my_rewatching", text |-> <<"1">>],
       [name |-> "my_rewatching_ep", text |-> <<"0">>],
       [name |-> "my_last_updated", text |-> <<"1", "0", "0">>],
       [name |-> "my_tags", text |-> <<"a", ",", "b">>] >>

AnimeDocPlain ==
    << [name |-> "series_animedb_id", text |-> <<"4", "2", "2", "4">>],
       [name |-> "series_title", text |-> <<"T">>],
       [name |-> "series_synonyms", text |-> << >>],
       [name |-> "series_type", text |-> <<"1">>],
       [name |-> "series_episodes", text |-> <<"2", "5">>],
       [name |-> "series_status", text |-> <<"2">>],
       [name |-> "series_start", text |-> <<"2", "0", "0", "8", "-", "1", "0", "-", "0", "2">>],
       [name |-> "series_end", text |-> <<"2", "0", "0", "9", "-", "0", "3", "-", "2", "6">>],
       [name |-> "series_image", text |-> <<"u">>],
       [name |-> "my_id", text |-> <<"0">>],
       [name |-> "my_watched_episodes", text |-> <<"0">>],
       [name |-> "my_start_date", text |-> <<"0", "0", "0", "0", "-", "0", "0", "-", "0", "0">>],
       [name |-> "my_finish_date", text |-> <<"0", "0", "0", "0", "-", "0", "0", "-", "0", "0">>],
       [name |-> "my_score", text |-> <<"0">>],
       [name |-> "my_status", text |-> <<"6">>],
       [name |-> "my_rewatching", text |-> << >>],
       [name |-> "my_rewatching_ep", text |-> <<"0">>],
       [name |-> "my_last_updated", text |-> <<"0">>],
       [name |-> "my_tags", text |-> << >>] >>

MangaDocRich ==
    << [name |-> "series_mangadb_id", text |-> <<"2">>],
       [name |-> "series_title", text |-> <<"B">>],
       [name |-> "series_synonyms", text |-> <<"C">>],
       [name |-> "series_type", text |-> <<"1">>],
       [name |-> "series_chapters", text |-> <<"0">>],
       [name |-> "series_volumes", text |-> <<"0">>],
       [name |-> "series_status", text |-> <<"1">>],
       [name |-> "series_start", text |-> <<"1", "9", "8", "9", "-", "0", "8", "-", "2", "5">>],
       [name |-> "series_end", text |-> <<"0", "0", "0", "0", "-", "0", "0", "-", "0", "0">>],
       [name |-> "series_image", text |-> <<"u">>],
       [name |-> "my_id", text |-> <<"0">>],
       [name |-> "my_read_chapters", text |-> <<"1", "2">>],
       [name |-> "my_read_volumes", text |-> <<"3">>],
       [name |-> "my_start_date", text |-> <<"2", "0", "1", "7", "-", "0", "1", "-", "0", "5">>],
       [name |-> "my_finish_date", text |-> <<"0", "0", "0", "0", "-", "0", "0", "-", "0", "0">>],
       [name |-> "my_score", text |-> <<"9">>],
       [name |-> "my_status", text |-> <<"1">>],
       [name |-> "my_rereadingg", text |-> <<"1">>],
       [name |-> "my_rereading_chap", text |-> <<"0">>],
       [name |-> "my_last_updated", text |-> <<"1", "0", "0">>],
       [name |-> "my_tags", text |-> <<"a", ",", "b">>] >>

MangaDocPlain ==
    << [name |-> "series_mangadb_id", text |-> <<"2">>],
       [name |-> "series_title", text |-> <<"B">>],
       [name |-> "series_synonyms", text |-> << >>],
       [name |-> "series_type", text |-> <<"1">>],
       [name |-> "series_chapters", text |-> <<"0">>],
       [name |-> "series_volumes", text |-> <<"0">>],
       [name |-> "series_status", text |-> <<"1">>],
       [name |-> "series_start", text |-> <<"1", "9", "8", "9", "-", "0", "8", "-", "2", "5">>],
       [name |-> "series_end", text |-> <<"0", "0", "0", "0", "-", "0", "0", "-", "0", "0">>],
       [name |-> "series_image", text |-> <<"u">>],
       [name |-> "my_id", text |-> <<"0">>],
       [name |-> "my_read_chapters", text |-> <<"0">>],
       [name |-> "my_read_volumes", text |-> <<"0">>],
       [name |-> "my_start_date", text |-> <<"0", "0", "0", "0", "-", "0", "0", "-", "0", "0">>],
       [name |-> "my_finish_date", text |-> <<"0", "0", "0", "0", "-", "0", "0", "-", "0", "0">>],
       [name |-> "my_score", text |-> <<"0">>],
       [name |-> "my_status", text |-> <<"6">>],
       [name |-> "my_rereadingg", text |-> << >>],
       [name |-> "my_rereading_chap", text |-> <<"0">>],
       [name |-> "my_last_updated", text |-> <<"0">>],
       [name |-> "my_tags", text |-> << >>] >>

PlainDoc(c) == IF c = "anime" THEN AnimeDocPlain ELSE MangaDocPlain

BaseDocs(c) ==
    IF c = "anime" THEN {AnimeDocRich, AnimeDocPlain} ELSE {MangaDocRich, MangaDocPlain}

TextInputs ==
    {<< >>,
     <<"0">>,
     <<"1">>,
     <<"5">>,
     <<"6">>,
     <<"7">>,
     <<"-", "1">>,
     <<"+", "5">>,
     <<"x">>,
     <<"3", "0", "0">>,
     <<" ", "1">>,
     <<"2", "0", "1", "7", "-", "0", "2", "-", "2", "9">>,
     <<"2", "0", "1", "7", "-", "2", "-", "3">>,
     <<"a", ",", ",", "b">>,
     <<",", "a", ",">>}

ReplaceText(xml, i, text) == [xml EXCEPT ![i].text = text]

RemoveChild(xml, i) == SubSeq(xml, 1, i - 1) \o SubSeq(xml, i + 1, Len(xml))

\* the document with the text of its child `name` replaced
ReplaceChildText(xml, name, text) ==
    [i \in DOMAIN xml |-> IF xml[i].name = name THEN [xml[i] EXCEPT !.text = text]
                          ELSE xml[i]]

\* the document without its children named `name`
WithoutChild(xml, name) == SelectSeq(xml, LAMBDA child : child.name # name)

DocInputs(c) ==
    BaseDocs(c)
    \cup UNION {{ReplaceText(b, i, t) : i \in DOMAIN b, t \in TextInputs} : b \in BaseDocs(c)}
    \cup UNION {{RemoveChild(b, i) : i \in DOMAIN b} : b \in BaseDocs(c)}

(***************************************************************************)
(* Search results to decode, and labels to give from_str: every label of   *)
(* every family in lower case, in upper case and capitalised, and texts    *)
(* that are no label.                                                      *)
(***************************************************************************)
AnimeSearchDoc ==
    << [name |-> "id", text |-> <<"4", "2", "2", "4">>],
       [name |-> "title", text |-> <<"T">>],
       [name |-> "english", text |-> <<"E">>],
       [name |-> "synonyms", text |-> <<"A", ";", " ", "B", ";", " ">>],
       [name |-> "episodes", text |-> <<"2", "5">>],
       [name |-> "score", text |-> <<"8", ".", "4", "0">>],
       [name |-> "type", text |-> <<"T", "V">>],
       [name |-> "status", text |-> <<"F", "i", "n", "i", "s", "h", "e", "d", " ", "A", "i", "r", "i", "n", "g">>],
       [name |-> "start_date", text |-> <<"2", "0", "0", "8", "-", "1", "0", "-", "0", "2">>],
       [name |-> "end_date", text |-> <<"2", "0", "0", "9", "-", "0", "3", "-", "2", "6">>],
       [name |-> "synopsis", text |-> <<"s">>],
       [name |-> "image", text |-> <<"u">>] >>

MangaSearchDoc ==
    << [name |-> "id", text |-> <<"2">>],
       [name |-> "title", text |-> <<"B">>],
       [name |-> "english", text |-> <<"E">>],
       [name |-> "synonyms", text |-> <<"C">>],
       [name |-> "chapters", text |-> <<"0">>],
       [name |-> "volumes", text |-> <<"0">>],
       [name |-> "score", text |-> <<"9", ".", "3", "0">>],
       [name |-> "type", text |-> <<"M", "a", "n", "g", "a">>],
       [name |-> "status", text |-> <<"P", "u", "b", "l", "i", "s", "h", "i", "n", "g">>],
       [name |-> "start_date", text |-> <<"1", "9", "8", "9", "-", "0", "8", "-", "2", "5">>],
       [name |-> "end_date", text |-> <<"0", "0", "0", "0", "-", "0", "0", "-", "0", "0">>],
       [name |-> "synopsis", text |-> <<"s">>],
       [name |-> "image", text |-> <<"u">>] >>

SearchDoc(c) == IF c = "anime" THEN AnimeSearchDoc ELSE MangaSearchDoc

Labels ==
    {<<"t", "v">>,
     <<"o", "v", "a">>,
     <<"m", "o", "v", "i", "e">>,
     <<"s", "p", "e", "c", "i", "a", "l">>,
     <<"o", "n", "a">>,
     <<"c", "u", "r", "r", "e", "n", "t", "l", "y", " ", "a", "i", "r", "i", "n", "g">>,
     <<"f", "i", "n", "i", "s", "h", "e", "d", " ", "a", "i", "r", "i", "n", "g">>,
     <<"n", "o", "t", " ", "y", "e", "t", " ", "a", "i", "r", "e", "d">>,
     <<"m", "a", "n", "g", "a">>,
     <<"n", "o", "v", "e", "l">>,
     <<"o", "n", "e", "-", "s", "h", "o", "t">>,
     <<"d", "o", "u", "j", "i", "n", "s", "h", "i">>,
     <<"m", "a", "n", "h", "w", "a">>,
     <<"m", "a", "n", "h", "u", "a">>,
     <<"p", "u", "b", "l", "i", "s", "h", "i", "n", "g">>,
     <<"f", "i", "n", "i", "s", "h", "e", "d">>,
     <<"n", "o", "t", " ", "y", "e", "t", " ", "p", "u", "b", "l", "i", "s", "h", "e", "d">>}

CharToUpper(ch) ==
    IF \E i \in DOMAIN LowerChars : LowerChars[i] = ch
    THEN UpperChars[CHOOSE i \in DOMAIN LowerChars : LowerChars[i] = ch]
    ELSE ch

Uppercase(text) == [i \in DOMAIN text |-> CharToUpper(text[i])]

Capitalize(text) == [i \in DOMAIN text |-> IF i = 1 THEN CharToUpper(text[i]) ELSE text[i]]

LabelInputs ==
    Labels \cup {Uppercase(l) : l \in Labels} \cup {Capitalize(l) : l \in Labels}
    \cup {<< >>,
          <<"x">>,
          <<"t", "v", " ">>,
          <<"t", " ", "v">>,
          <<"o", "n", "e", " ", "s", "h", "o", "t">>,
          <<"2">>,
          <<"U", "n", "k", "n", "o", "w", "n">>}

SearchDocInputs(c) ==
    {SearchDoc(c)}
    \cup {ReplaceText(SearchDoc(c), i, t) :
              i \in DOMAIN SearchDoc(c), t \in TextInputs \cup LabelInputs}
    \cup {RemoveChild(SearchDoc(c), i) : i \in DOMAIN SearchDoc(c)}

(***************************************************************************)
(* List<E>: add, add_id, update, update_id.  The transport (Request::send) *)
(* is the environment: its outcome is an input of each call.               *)
(***************************************************************************)
TransportOk == <<"Ok">>

\* Ok, or a RequestError
TransportOutcomes == {TransportOk, <<"HttpError">>, <<"BadResponseCode", "400">>}

\* the id of the entry's series (series_info.id)
EntryId == 4224

\* the id the caller passes to add_id / update_id: another series than the entry's
Ids == {2}

NoBody == [name |-> "", children |-> << >>]

NoRequest == [kind |-> "None", id |-> 0, list_type |-> "", body |-> NoBody]

ResultOk == <<"Ok">>

NoResult == << >>

\* MALError::Request(err)
ErrRequest(outcome) == <<"Err", "Request">> \o outcome

\* an add_id / update_id that resets the changed fields before it looks at what
\* the transport returned
SendValuesResetFirst(kind, c, id, vals, outcome) ==
    LET body == GenerateXml(c, vals)
        request == [kind |-> kind, id |-> id, list_type |-> c, body |-> body]
        reset == [f \in DOMAIN vals |-> [vals[f] EXCEPT !.changed = FALSE]]
    IN  IF outcome # TransportOk
        THEN [result |-> ErrRequest(outcome), values |-> reset, request |-> request]
        ELSE [result |-> ResultOk, values |-> reset, request |-> request]

\* an add_id / update_id that sends nothing when no field has changed
SendValuesIfChanged(kind, c, id, vals, outcome) ==
    IF \A f \in DOMAIN vals : ~vals[f].changed
    THEN [result |-> ResultOk, values |-> vals, request |-> NoRequest]
    ELSE IF outcome # TransportOk
    THEN [result |-> ErrRequest(outcome), values |-> vals,
          request |-> [kind |-> kind, id |-> id, list_type |-> c,
                       body |-> GenerateXml(c, vals)]]
    ELSE [result |-> ResultOk, values |-> ResetChangedFields(vals),
          request |-> [kind |-> kind, id |-> id, list_type |-> c,
                       body |-> GenerateXml(c, vals)]]

\* the body of add_id and update_id, which differ in the request's kind only;
\* generate_xml writes into a Vec and cannot fail here
SendValues(kind, c, id, vals, outcome) ==
    LET body == GenerateXml(c, vals)
        request == [kind |-> kind, id |-> id, list_type |-> c, body |-> body]
    IN  IF outcome # TransportOk
        THEN [result |-> ErrRequest(outcome), values |-> vals, request |-> request]
        ELSE [result |-> ResultOk, values |-> ResetChangedFields(vals),
              request |-> request]

ListAddId(c, id, vals, outcome) == SendValues("Add", c, id, vals, outcome)

ListUpdateId(c, id, vals, outcome) == SendValues("Update", c, id, vals, outcome)

\* set_last_updated_time: Utc::now()
SetLastUpdatedTime(entry, clock) == [entry EXCEPT !.last_updated_time = clock]

\* the body of add and update: the id form on the entry's id and values, then,
\* unless that returned an error, set_last_updated_time
SendEntry(kind, c, entry, outcome, clock) ==
    LET r == SendValues(kind, c, entry.id, entry.values, outcome)
        sent == [entry EXCEPT !.values = r.values]
    IN  IF r.result # ResultOk
        THEN [result |-> r.result, entry |-> sent, request |-> r.request]
        ELSE [result |-> ResultOk, entry |-> SetLastUpdatedTime(sent, clock),
              request |-> r.request]

ListAdd(c, entry, outcome, clock) == SendEntry("Add", c, entry, outcome, clock)

ListUpdate(c, entry, outcome, clock) == SendEntry("Update", c, entry, outcome, clock)

(***************************************************************************)
(* List<E>: search_for and read; MAL::verify_credentials.  The transport   *)
(* answers a response text or a RequestError; the text parses into a root  *)
(* element with children, or it is no document.                            *)
(***************************************************************************)
NoContent == <<"BadResponseCode", "204">>

Unauthorized == <<"BadResponseCode", "401">>

Malformed == [wellformed |-> FALSE, children |-> << >>]

Root(children) == [wellformed |-> TRUE, children |-> children]

\* the loop over the children pushes each decoded item, and the first that
\* fails ends the call with its error
Collected(items) ==
    IF ~AllOk(items) THEN Err(<<"List", FirstErr(items).err>>)
    ELSE Ok([i \in DOMAIN items |-> items[i].val])

\* a search_for to which the no-content status is an error like any other
SearchForStrict(c, outcome, body) ==
    IF outcome # TransportOk THEN Err(<<"Request">> \o outcome)
    ELSE IF ~body.wellformed THEN Err(<<"Minidom">>)
    ELSE Collected([i \in DOMAIN body.children |->
                       ParseSearchResult(c, body.children[i])])

\* List::search_for: the loop stops at the first child that fails to decode
SearchFor(c, outcome, body) ==
    IF outcome = NoContent THEN Ok(<< >>)
    ELSE IF outcome # TransportOk THEN Err(<<"Request">> \o outcome)
    ELSE IF ~body.wellformed THEN Err(<<"Minidom">>)
    ELSE Collected([i \in DOMAIN body.children |->
                       ParseSearchResult(c, body.children[i])])

\* List { user_info, entries }: the user statistics are decoded before the
\* entries
ListOf(user_info, entries) ==
    IF ~user_info.ok THEN Err(<<"List", user_info.err>>)
    ELSE IF ~entries.ok THEN entries
    ELSE Ok([user_info |-> user_info.val, entries |-> entries.val])

\* a read that decodes every child of the root as an entry and takes the
\* user statistics from the first
ReadEveryChild(c, outcome, body) ==
    IF outcome # TransportOk THEN Err(<<"Request">> \o outcome)
    ELSE IF ~body.wellformed THEN Err(<<"Minidom">>)
    ELSE IF body.children = << >> THEN Err(<<"List", <<"NoUserInfoFound">> >>)
    ELSE ListOf(UserInfoParse(c, Head(body.children)),
                Collected([i \in DOMAIN body.children |->
                              EntryParse(c, body.children[i])]))

\* a read to which a root without children is a list without entries
ReadOrEmpty(c, outcome, body) ==
    IF outcome # TransportOk THEN Err(<<"Request">> \o outcome)
    ELSE IF ~body.wellformed THEN Err(<<"Minidom">>)
    ELSE IF body.children = << >> THEN Ok([user_info |-> << >>, entries |-> << >>])
    ELSE ListOf(UserInfoParse(c, Head(body.children)),
                Collected([i \in DOMAIN Tail(body.children) |->
                              EntryParse(c, Tail(body.children)[i])]))

\* List::read: children.next() is the user statistics, the loop decodes the
\* children after it and stops at the first that fails
Read(c, outcome, body) ==
    IF outcome # TransportOk THEN Err(<<"Request">> \o outcome)
    ELSE IF ~body.wellformed THEN Err(<<"Minidom">>)
    ELSE IF body.children = << >> THEN Err(<<"List", <<"NoUserInfoFound">> >>)
    ELSE ListOf(UserInfoParse(c, Head(body.children)),
                Collected([i \in DOMAIN Tail(body.children) |->
                              EntryParse(c, Tail(body.children)[i])]))

\* a verify_credentials to which the unauthorized status is an error
VerifyCredentialsStrict(outcome) ==
    IF outcome = TransportOk THEN Ok(TRUE) ELSE Err(<<"Request">> \o outcome)

\* MAL::verify_credentials
VerifyCredentials(outcome) ==
    IF outcome = TransportOk THEN Ok(TRUE)
    ELSE IF outcome = Unauthorized THEN Ok(FALSE)
    ELSE Err(<<"Request">> \o outcome)

(***************************************************************************)
(* The values a caller passes to the setters.                              *)
(***************************************************************************)
U32Inputs == {0}

U8Inputs == {0}

DateInputs == {None}

StatusInputs(c) == {DefaultValue(c, "status")}

BoolInputs == BOOLEAN

TagsInputs == {<< >>, << <<"a">> >>}

FieldInputs(c, f) ==
    LET type == FieldSpec(c, f).type
    IN  CASE type = "u32" -> U32Inputs
          [] type = "u8" -> U8Inputs
          [] type = "date" -> DateInputs
          [] type = "status" -> StatusInputs(c)
          [] type = "bool" -> BoolInputs
          [] type = "tags" -> TagsInputs

(***************************************************************************)
(* The state machine of one entry and its caller.  `last` is what the      *)
(* caller saw of its latest operation: which one it was, what the          *)
(* transport reported to it (write operations) and what it returned.       *)
(***************************************************************************)
WriteOps == {"add", "add_id", "update", "update_id"}

EntryOps == {"add", "update"}

Entry == [id |-> EntryId, values |-> values, last_updated_time |-> last_updated_time]

NoOutcome == << >>

OpRecord(op, outcome, result) == [op |-> op, outcome |-> outcome, result |-> result]

NoInput == [fn |-> "none"]

NoOutput == [done |-> FALSE]

\* no field was written
NoWrites == [f \in {} |-> 0]

\* the writes so far and the write of `v` to the field `f`
Write(f, v) == [g \in DOMAIN written \cup {f} |-> IF g = f THEN v ELSE written[g]]

\* no call was made yet
NoCall ==
    [op |-> "none", phase |-> "idle", id |-> 0, sent |-> 0, request |-> NoRequest,
     clean |-> FALSE]

\* AnimeEntry::new(info) / MangaEntry::new(info): new values, stamped Utc::now()
\* or AnimeEntry::parse / MangaEntry::parse of a plain list snapshot entry
Init ==
    /\ cat \in Cats
    /\ values \in {ValuesNew(cat), ValuesParse(cat, PlainDoc(cat)).val}
    /\ now = 0
    /\ last_updated_time = now
    /\ last = OpRecord("new", NoOutcome, NoResult)
    /\ mutated = {}
    /\ inp = NoInput
    /\ out = NoOutput
    /\ written = NoWrites
    /\ call = NoCall

SetField(f, v) ==
    /\ values' = ValuesSet(values, f, v)
    /\ last' = OpRecord("set", NoOutcome, NoResult)
    /\ mutated' = mutated \cup {f}
    /\ written' = Write(f, v)
    /\ UNCHANGED <<cat, call, last_updated_time, now, inp, out>>

TagsMutCall(t) ==
    /\ values' = TagsMut(values, t)
    /\ last' = OpRecord("tags_mut", NoOutcome, NoResult)
    /\ mutated' = mutated \cup {"tags"}
    /\ written' = Write("tags", t)
    /\ UNCHANGED <<cat, call, last_updated_time, now, inp, out>>

GetterCall(f) ==
    /\ values' = ValuesAfterGetter(values, f)
    /\ last' = OpRecord("get", NoOutcome, NoResult)
    /\ UNCHANGED <<cat, call, written, last_updated_time, now, mutated, inp, out>>

\* add(&mut entry) and update(&mut entry); the clock is read when the entry is
\* stamped, and every reading is later than the one before
EntryCall(op, outcome) ==
    /\ now < MaxNow
    /\ LET r == IF op = "add" THEN ListAdd(cat, Entry, outcome, now + 1)
                ELSE ListUpdate(cat, Entry, outcome, now + 1)
       IN  /\ values' = r.entry.values
           /\ last_updated_time' = r.entry.last_updated_time
           /\ now' = IF r.result = ResultOk THEN now + 1 ELSE now
           /\ last' = OpRecord(op, outcome, r.result)
           /\ mutated' = IF r.result = ResultOk THEN {} ELSE mutated
           /\ written' = IF r.result = ResultOk THEN NoWrites ELSE written
    /\ UNCHANGED <<cat, call, inp, out>>

\* add_id(id, &mut values) and update_id(id, &mut values)
IdCall(op, id, outcome) ==
    /\ LET r == IF op = "add_id" THEN ListAddId(cat, id, values, outcome)
                ELSE ListUpdateId(cat, id, values, outcome)
       IN  /\ values' = r.values
           /\ last' = OpRecord(op, outcome, r.result)
           /\ mutated' = IF r.result = ResultOk THEN {} ELSE mutated
           /\ written' = IF r.result = ResultOk THEN NoWrites ELSE written
    /\ UNCHANGED <<cat, call, last_updated_time, now, inp, out>>

Next ==
    \/ \E f \in Fields(cat) \ {"tags"} : \E v \in FieldInputs(cat, f) : SetField(f, v)
    \/ \E t \in TagsInputs : TagsMutCall(t)
    \/ \E f \in Fields(cat) : GetterCall(f)
    \/ \E op \in EntryOps : \E outcome \in TransportOutcomes : EntryCall(op, outcome)
    \/ \E op \in WriteOps \ EntryOps : \E id \in Ids : \E outcome \in TransportOutcomes :
          IdCall(op, id, outcome)

Spec == Init /\ [][Next]_vars

(***************************************************************************)
(* The codecs, each applied once to an input drawn from a bounded set      *)
(* (specification SpecCodec).  `inp` is the input with the function it is  *)
(* for, `out` the result once the function has been applied.               *)
(***************************************************************************)
FromI32Inputs ==
    [fn : {"from_i32"}, family : Families, value : (0 - MaxIndex)..MaxIndex]

AsI32Inputs ==
    UNION {{[fn |-> "as_i32", family |-> fam, member |-> e] : e \in Members(fam)} :
              fam \in Families}

TrackerInputs ==
    [fn : {"tracker"}, v : 0..MaxValue, x1 : 0..MaxValue, x2 : 0..MaxValue]

ValuesNewInputs == [fn : {"values_new"}, c : Cats]

\* the child of the re-watching / re-reading flag
FlagTag(c) == IF c = "anime" THEN "my_rewatching" ELSE "my_rereadingg"

\* the field of the re-watching / re-reading flag
FlagField(c) == IF c = "anime" THEN "rewatching" ELSE "rereading"

\* more texts for the flag: numbers that are 1 and numbers that are not, of
\* the integer type and beyond it
FlagTexts ==
    {<<"2">>,
     <<"+", "1">>,
     <<"0", "1">>,
     <<"1", "0">>,
     <<"1", "1">>,
     <<"2", "5", "5">>,
     <<"2", "5", "6">>,
     <<"2", "5", "7">>,
     <<"-", "0">>,
     <<"1", " ">>,
     <<"1", ".", "0">>,
     <<"t", "r", "u", "e">>}

FlagDocInputs(c) ==
    {ReplaceChildText(b, FlagTag(c), t) : b \in BaseDocs(c), t \in FlagTexts}

ParseInputs(fn) ==
    UNION {{[fn |-> fn, c |-> c, xml |-> d] : d \in DocInputs(c) \cup FlagDocInputs(c)} :
              c \in Cats}

\* the years of the dates given to date_to_str
YearInputs == {0, 999, 1000, 2016, 2017, 9999, 10000}

DateToStrInputs ==
    {[fn |-> "date_to_str", date |-> None]}
    \cup UNION {{[fn |-> "date_to_str", date |-> FromYmdOpt(y, m, d)] :
                    d \in {1, 9, 10, DaysInMonth(y, m)}} :
                 <<y, m>> \in YearInputs \X (1..12)}

DateTextInputs ==
    {<<"0", "0", "0", "0", "-", "0", "0", "-", "0", "0">>,
     <<"2", "0", "1", "7", "-", "0", "2", "-", "0", "3">>,
     <<"2", "0", "1", "6", "-", "0", "2", "-", "2", "9">>,
     <<"2", "0", "1", "7", "-", "0", "2", "-", "2", "9">>,
     <<"2", "0", "1", "7", "-", "2", "-", "3">>,
     <<"2", "0", "1", "7", "-", "1", "3", "-", "0", "1">>,
     <<"0", "0", "0", "0", "-", "0", "1", "-", "0", "1">>,
     <<"0", "0", "0", "0", "0", "0", "0", "0">>,
     << >>,
     <<"x">>,
     <<"2", "0", "1", "7", "-", "0", "2", "-", "0", "3", " ">>,
     <<" ", "2", "0", "1", "7", "-", "0", "2", "-", "0", "3">>,
     <<"+", "2", "0", "1", "7", "-", "0", "2", "-", "0", "3">>,
     <<"-", "0", "0", "0", "1", "-", "0", "1", "-", "0", "1">>,
     <<"1", "2", "3", "4", "5", "-", "0", "1", "-", "0", "1">>,
     <<"2", "0", "1", "7", "/", "0", "2", "/", "0", "3">>,
     <<"0", "0", "0", "0", "-", "0", "0", "-", "0", "1">>}

ParseStrDateInputs == [fn : {"parse_str_date"}, text : DateTextInputs]

FromStrInputs == [fn : {"from_str"}, family : StrFamilies, text : LabelInputs]

SearchParseInputs ==
    UNION {{[fn |-> "search_parse", c |-> c, xml |-> d] : d \in SearchDocInputs(c)} :
              c \in Cats}

\* the most children a response root has
MaxChildren == 3

AnimeUserDoc ==
    << [name |-> "user_id", text |-> <<"7">>],
       [name |-> "user_name", text |-> <<"n">>],
       [name |-> "user_watching", text |-> <<"1">>],
       [name |-> "user_completed", text |-> <<"2">>],
       [name |-> "user_onhold", text |-> <<"0">>],
       [name |-> "user_dropped", text |-> <<"0">>],
       [name |-> "user_plantowatch", text |-> <<"3">>],
       [name |-> "user_days_spent_watching", text |-> <<"1", "2", ".", "5">>] >>

MangaUserDoc ==
    << [name |-> "user_id", text |-> <<"7">>],
       [name |-> "user_name", text |-> <<"n">>],
       [name |-> "user_reading", text |-> <<"1">>],
       [name |-> "user_completed", text |-> <<"2">>],
       [name |-> "user_onhold", text |-> <<"0">>],
       [name |-> "user_dropped", text |-> <<"0">>],
       [name |-> "user_plantoread", text |-> <<"3">>],
       [name |-> "user_days_spent_watching", text |-> <<".", "5", "e", "1">>] >>

UserDoc(c) == IF c = "anime" THEN AnimeUserDoc ELSE MangaUserDoc

\* children of a list response: user statistics and entries, good and bad
ReadChildren(c) ==
    {UserDoc(c),
     WithoutChild(UserDoc(c), "user_id"),
     ReplaceChildText(UserDoc(c), "user_days_spent_watching", <<"1", ".", "e", "x">>),
     IF c = "anime" THEN AnimeDocRich ELSE MangaDocRich,
     PlainDoc(c),
     ReplaceChildText(PlainDoc(c), "my_status", <<"0">>)}

\* children of a search response, good and bad
SearchChildren(c) ==
    {SearchDoc(c),
     ReplaceChildText(SearchDoc(c), "id", <<"7">>),
     ReplaceChildText(SearchDoc(c), "type", <<"x">>),
     WithoutChild(SearchDoc(c), "id")}

\* a response text: no document, or a root with up to MaxChildren children
Bodies(children) ==
    {Malformed} \cup {Root(s) : s \in UNION {[1..n -> children] : n \in 0..MaxChildren}}

RequestOutcomes == TransportOutcomes \cup {NoContent, Unauthorized, <<"ReadResponse">>}

\* a request that fails has no response text
RequestInputs(fn, c, children) ==
    {[fn |-> fn, c |-> c, outcome |-> o, body |-> Malformed] :
        o \in RequestOutcomes \ {TransportOk}}
    \cup {[fn |-> fn, c |-> c, outcome |-> TransportOk, body |-> b] : b \in Bodies(children)}

SearchForInputs == UNION {RequestInputs("search_for", c, SearchChildren(c)) : c \in Cats}

ReadInputs == UNION {RequestInputs("read", c, ReadChildren(c)) : c \in Cats}

VerifyCredentialsInputs == [fn : {"verify_credentials"}, outcome : RequestOutcomes]

SplitTexts ==
    {<< >>,
     <<"A", ";", " ", "B", ";", " ">>,
     <<";", " ", "A", ";", " ", "B">>,
     <<";", " ", ";", " ", "A">>,
     <<"A", ";", " ", ";", " ", "B">>,
     <<"A", ";", "B">>,
     <<";", " ">>,
     <<"a", ",", "b">>,
     <<",", "a", ",">>,
     <<"a", ",", ",", "b">>,
     <<"a", ",">>,
     <<",">>}

SplitInputs == [fn : {"split_into_vec"}, text : SplitTexts, delim : {<<";", " ">>, <<",">>}]

\* the values a field of the write body can hold
WireValues(c, type) ==
    CASE type = "u32" -> {0, 7, 10, 1234, 2147483647}
      [] type = "u8" -> {0, 9, 10, 255}
      [] type = "date" -> {None, Some([y |-> 2017, m |-> 2, d |-> 9]),
                           Some([y |-> 1999, m |-> 12, d |-> 31])}
      [] type = "status" -> Members(StatusFamily(c))
      [] type = "bool" -> BOOLEAN
      [] type = "tags" -> {<< >>, << <<"a">> >>, << <<"a">>, <<"b">> >>,
                           << <<"a", " ", "b">>, <<"c">>, <<"d">> >>}

WireTypes == {"u32", "u8", "date", "status", "bool", "tags"}

\* new values with one field, of the given type, set
GenerateXmlInputs(type) ==
    UNION {UNION {{[fn |-> "generate_xml", c |-> c, field |-> f, value |-> v,
                    vals |-> ValuesSet(ValuesNew(c), f, v)] :
                      v \in WireValues(c, type)} :
                     f \in {g \in Fields(c) : FieldSpec(c, g).type = type}} :
              c \in Cats}

\* the ids of the series that are compared
EqIds == {<<"7">>, <<"4", "2", "2", "4">>}

\* what is compared: the series of a search result and of two list entries,
\* and two list entries, each under either id
EqOperands(type) ==
    CASE type = "AnimeInfo" ->
            {r.val : r \in {x \in {ParseSearchResult("anime",
                                       ReplaceChildText(AnimeSearchDoc, "id", i)) :
                                      i \in EqIds} : x.ok}}
            \cup {r.val.series_info :
                     r \in {x \in {EntryParse("anime",
                                       ReplaceChildText(d, "series_animedb_id", i)) :
                                      d \in {AnimeDocRich, AnimeDocPlain}, i \in EqIds} :
                               x.ok}}
      [] type = "MangaInfo" ->
            {r.val : r \in {x \in {ParseSearchResult("manga",
                                       ReplaceChildText(MangaSearchDoc, "id", i)) :
                                      i \in EqIds} : x.ok}}
            \cup {r.val.series_info :
                     r \in {x \in {EntryParse("manga",
                                       ReplaceChildText(d, "series_mangadb_id", i)) :
                                      d \in {MangaDocRich, MangaDocPlain}, i \in EqIds} :
                               x.ok}}
      [] type = "AnimeEntry" ->
            {r.val : r \in {x \in {EntryParse("anime",
                                       ReplaceChildText(d, "series_animedb_id", i)) :
                                      d \in {AnimeDocRich, AnimeDocPlain}, i \in EqIds} :
                               x.ok}}

EqInputs(type) ==
    [fn : {"eq"}, type : {type}, self : EqOperands(type), other : EqOperands(type)]

\* the values a mutator is called on: new ones, decoded ones, and decoded
\* ones with two fields changed since
MutatorBases(c) ==
    {ValuesNew(c)}
    \cup {r.val : r \in {x \in {ValuesParse(c, d) : d \in BaseDocs(c) \ {PlainDoc(c)}} :
                            x.ok}}
    \cup {TagsMut(ValuesSet(r.val, "score", 3), << <<"t">> >>) :
             r \in {x \in {ValuesParse(c, d) : d \in BaseDocs(c) \ {PlainDoc(c)}} : x.ok}}

\* the getter a caller reads the value back with
GetterOf(method) ==
    CASE method = "set_watched_episodes" -> "watched_episodes"
      [] method = "set_read_chapters" -> "chapter"
      [] method = "set_read_volumes" -> "volume"
      [] method = "set_status" -> "status"
      [] method = "set_score" -> "score"
      [] method = "set_start_date" -> "start_date"
      [] method = "set_finish_date" -> "finish_date"
      [] method = "set_rewatching" -> "rewatching"
      [] method = "set_rereading" -> "rereading"
      [] method = "tags_mut" -> "tags"

MutatorInputs(type) ==
    UNION {UNION {{[fn |-> "mutator", c |-> c, vals |-> b, method |-> m, value |-> v] :
                      v \in WireValues(c, type), b \in MutatorBases(c)} :
                     m \in {n \in Mutators(c) :
                               FieldSpec(c, MutatorField(c, n)).type = type}} :
              c \in Cats}

\* lists of tags that are not empty and hold no comma
TagTexts == {<<"a">>, <<"b", " ", "c">>, <<"d", ";">>}

TagLists == UNION {[1..n -> TagTexts] : n \in 0..MaxChildren}

RoundTripInputs == [fn : {"tags_round_trip"}, tags : TagLists]

InitCodec ==
    /\ cat = "anime"
    /\ values = ValuesNew(cat)
    /\ now = 0
    /\ last_updated_time = now
    /\ last = OpRecord("new", NoOutcome, NoResult)
    /\ mutated = {}
    /\ \/ inp \in FromI32Inputs
       \/ inp \in AsI32Inputs
       \/ inp \in TrackerInputs
       \/ inp \in ValuesNewInputs
       \/ inp \in ParseInputs("values_parse")
       \/ inp \in ParseInputs("entry_parse")
       \/ inp \in FromStrInputs
       \/ inp \in SearchParseInputs
       \/ inp \in DateToStrInputs
       \/ inp \in ParseStrDateInputs
       \/ inp \in SearchForInputs
       \/ inp \in ReadInputs
       \/ inp \in VerifyCredentialsInputs
       \/ inp \in SplitInputs
       \/ \E type \in WireTypes : inp \in GenerateXmlInputs(type)
       \/ \E type \in EqTypes : inp \in EqInputs(type)
       \/ \E type \in WireTypes : inp \in MutatorInputs(type)
       \/ inp \in RoundTripInputs
    /\ out = NoOutput
    /\ written = NoWrites
    /\ call = NoCall

Done(val) == [done |-> TRUE, val |-> val]

\* <family>::from_i32(value)
ApplyFromI32 ==
    /\ inp.fn = "from_i32"
    /\ ~out.done
    /\ out' = Done(FromI32(inp.family, inp.value))
    /\ UNCHANGED <<cat, call, written, values, last_updated_time, now, last, mutated, inp>>

\* `member as i32`, written to the wire, and from_i32 of what was written
ApplyAsI32 ==
    /\ inp.fn = "as_i32"
    /\ ~out.done
    /\ LET index == AsI32(inp.family, inp.member)
       IN  out' = Done([index |-> index, back |-> FromI32(inp.family, index)])
    /\ UNCHANGED <<cat, call, written, values, last_updated_time, now, last, mutated, inp>>

\* ChangeTracker::new(v), then set(x1), then set(x2)
ApplyTracker ==
    /\ inp.fn = "tracker"
    /\ ~out.done
    /\ LET t0 == ChangeTrackerNew(inp.v)
           t1 == ChangeTrackerSet(t0, inp.x1)
           t2 == ChangeTrackerSet(t1, inp.x2)
       IN  out' = Done(<<t0, t1, t2>>)
    /\ UNCHANGED <<cat, call, written, values, last_updated_time, now, last, mutated, inp>>

\* AnimeValues::new() / MangaValues::new()
ApplyValuesNew ==
    /\ inp.fn = "values_new"
    /\ ~out.done
    /\ out' = Done(ValuesNew(inp.c))
    /\ UNCHANGED <<cat, call, written, values, last_updated_time, now, last, mutated, inp>>

\* AnimeValues::parse(xml) / MangaValues::parse(xml)
ApplyValuesParse ==
    /\ inp.fn = "values_parse"
    /\ ~out.done
    /\ out' = Done(ValuesParse(inp.c, inp.xml))
    /\ UNCHANGED <<cat, call, written, values, last_updated_time, now, last, mutated, inp>>

\* AnimeEntry::parse(xml) / MangaEntry::parse(xml)
ApplyEntryParse ==
    /\ inp.fn = "entry_parse"
    /\ ~out.done
    /\ out' = Done(EntryParse(inp.c, inp.xml))
    /\ UNCHANGED <<cat, call, written, values, last_updated_time, now, last, mutated, inp>>

\* <family>::from_str(text)
ApplyFromStr ==
    /\ inp.fn = "from_str"
    /\ ~out.done
    /\ out' = Done(FromStr(inp.family, inp.text))
    /\ UNCHANGED <<cat, call, written, values, last_updated_time, now, last, mutated, inp>>

\* AnimeInfo::parse_search_result(xml) / MangaInfo::parse_search_result(xml)
ApplySearchParse ==
    /\ inp.fn = "search_parse"
    /\ ~out.done
    /\ out' = Done(ParseSearchResult(inp.c, inp.xml))
    /\ UNCHANGED <<cat, call, written, values, last_updated_time, now, last, mutated, inp>>

\* date_to_str(date)
ApplyDateToStr ==
    /\ inp.fn = "date_to_str"
    /\ ~out.done
    /\ out' = Done(DateToStr(inp.date))
    /\ UNCHANGED <<cat, call, written, values, last_updated_time, now, last, mutated, inp>>

\* parse_str_date(text)
ApplyParseStrDate ==
    /\ inp.fn = "parse_str_date"
    /\ ~out.done
    /\ out' = Done(ParseStrDate(inp.text))
    /\ UNCHANGED <<cat, call, written, values, last_updated_time, now, last, mutated, inp>>

\* List::search_for(name), the transport's answer given
ApplySearchFor ==
    /\ inp.fn = "search_for"
    /\ ~out.done
    /\ out' = Done(SearchFor(inp.c, inp.outcome, inp.body))
    /\ UNCHANGED <<cat, call, written, values, last_updated_time, now, last, mutated, inp>>

\* List::read(), the transport's answer given
ApplyRead ==
    /\ inp.fn = "read"
    /\ ~out.done
    /\ out' = Done(Read(inp.c, inp.outcome, inp.body))
    /\ UNCHANGED <<cat, call, written, values, last_updated_time, now, last, mutated, inp>>

\* MAL::verify_credentials(), the transport's answer given
ApplyVerifyCredentials ==
    /\ inp.fn = "verify_credentials"
    /\ ~out.done
    /\ out' = Done(VerifyCredentials(inp.outcome))
    /\ UNCHANGED <<cat, call, written, values, last_updated_time, now, last, mutated, inp>>

\* split_into_vec(text, delim)
ApplySplitIntoVec ==
    /\ inp.fn = "split_into_vec"
    /\ ~out.done
    /\ out' = Done(SplitIntoVec(inp.text, inp.delim))
    /\ UNCHANGED <<cat, call, written, values, last_updated_time, now, last, mutated, inp>>

\* AnimeValues::generate_xml() / MangaValues::generate_xml()
ApplyGenerateXml ==
    /\ inp.fn = "generate_xml"
    /\ ~out.done
    /\ out' = Done(GenerateXml(inp.c, inp.vals))
    /\ UNCHANGED <<cat, call, written, values, last_updated_time, now, last, mutated, inp>>

\* self == other
ApplyEq ==
    /\ inp.fn = "eq"
    /\ ~out.done
    /\ out' = Done(Eq(inp.type, inp.self, inp.other))
    /\ UNCHANGED <<cat, call, written, values, last_updated_time, now, last, mutated, inp>>

\* values.set_<field>(v) or the caller's edit through values.tags_mut(), and
\* then the getter of that field
ApplyMutator ==
    /\ inp.fn = "mutator"
    /\ ~out.done
    /\ out' = Done([vals |-> CallMutator(inp.c, inp.vals, inp.method, inp.value),
                    got |-> CallGetter(inp.c,
                                       CallMutator(inp.c, inp.vals, inp.method, inp.value),
                                       GetterOf(inp.method))])
    /\ UNCHANGED <<cat, call, written, values, last_updated_time, now, last, mutated, inp>>

\* the tags written by generate_xml, concat_by_delimeter(t, ','), and read
\* back as the values decoder reads my_tags, split_into_vec(text, ",")
ApplyTagsRoundTrip ==
    /\ inp.fn = "tags_round_trip"
    /\ ~out.done
    /\ out' = Done([text |-> ConcatByDelimeter(inp.tags, ","),
                    tags |-> SplitIntoVec(ConcatByDelimeter(inp.tags, ","), <<",">>)])
    /\ UNCHANGED <<cat, call, written, values, last_updated_time, now, last, mutated, inp>>

NextCodec ==
    \/ ApplyFromI32
    \/ ApplyAsI32
    \/ ApplyTracker
    \/ ApplyValuesNew
    \/ ApplyValuesParse
    \/ ApplyEntryParse
    \/ ApplyFromStr
    \/ ApplySearchParse
    \/ ApplyDateToStr
    \/ ApplyParseStrDate
    \/ ApplySearchFor
    \/ ApplyRead
    \/ ApplyVerifyCredentials
    \/ ApplySplitIntoVec
    \/ ApplyGenerateXml
    \/ ApplyEq
    \/ ApplyMutator
    \/ ApplyTagsRoundTrip

SpecCodec == InitCodec /\ [][NextCodec]_vars

(***************************************************************************)
(* The calls of List and MAL, a step at a time: a call builds its request  *)
(* and hands it to the transport (Dispatch), and comes back when the       *)
(* transport has answered (the Return actions).  The library has one       *)
(* thread and the calls borrow the entry, so the caller does nothing       *)
(* between the two steps.  `call` holds the call in progress or the one    *)
(* that returned last: the requests it handed to the transport are counted *)
(* in `sent`, the latest one is `request`, and `clean` is history: an add   *)
(* or update has succeeded and no mutator was called since.                *)
(***************************************************************************)
DeleteOps == {"delete", "delete_id"}

ReadOps == {"search_for", "read"}

CallOps == WriteOps \cup DeleteOps \cup ReadOps \cup {"verify_credentials"}

\* the id a call addresses: the entry's for add, update and delete
CallIds(op) ==
    IF op \in EntryOps \cup {"delete"} THEN {EntryId}
    ELSE IF op \in {"add_id", "update_id", "delete_id"} THEN Ids
    ELSE {0}

WriteKind(op) == IF op \in {"add", "add_id"} THEN "Add" ELSE "Update"

\* a delete_id that also clears the changed flags of the entry it is given
ListDeleteAndReset(c, entry, outcome) ==
    [result |-> IF outcome # TransportOk THEN ErrRequest(outcome) ELSE ResultOk,
     entry |-> IF outcome # TransportOk THEN entry
               ELSE [entry EXCEPT !.values = ResetChangedFields(entry.values)],
     request |-> [kind |-> "Delete", id |-> entry.id, list_type |-> c, body |-> NoBody]]

\* delete_id(id): Request::Delete(id, list_type).send(..).map_err(..)?; Ok(())
ListDeleteId(c, id, outcome) ==
    [result |-> IF outcome # TransportOk THEN ErrRequest(outcome) ELSE ResultOk,
     request |-> [kind |-> "Delete", id |-> id, list_type |-> c, body |-> NoBody]]

\* delete(&entry): self.delete_id(entry.id()); the entry is borrowed immutably
ListDelete(c, entry, outcome) ==
    [result |-> ListDeleteId(c, entry.id, outcome).result,
     entry |-> entry,
     request |-> ListDeleteId(c, entry.id, outcome).request]

\* the request a call builds before it calls send
RequestOf(op, id) ==
    CASE op \in WriteOps -> SendValues(WriteKind(op), cat, id, values, TransportOk).request
      [] op = "delete" -> ListDelete(cat, Entry, TransportOk).request
      [] op = "delete_id" -> ListDeleteId(cat, id, TransportOk).request
      [] op = "search_for" ->
            [kind |-> "Search", id |-> 0, list_type |-> cat, body |-> NoBody]
      [] op = "read" -> [kind |-> "List", id |-> 0, list_type |-> cat, body |-> NoBody]
      [] op = "verify_credentials" ->
            [kind |-> "VerifyCredentials", id |-> 0, list_type |-> "", body |-> NoBody]

\* what the caller sees of a Result
ResultOf(r) == IF r.ok THEN ResultOk ELSE <<"Err">>

\* the values a caller of this specification starts from: new, read from the
\* list, and read from the list and edited
InitCalls ==
    /\ cat \in Cats
    /\ values \in {ValuesNew(cat), ValuesParse(cat, PlainDoc(cat)).val,
                   ValuesSet(ValuesParse(cat, PlainDoc(cat)).val, "score", 0)}
    /\ now = 0
    /\ last_updated_time = now
    /\ last = OpRecord("new", NoOutcome, NoResult)
    /\ mutated = {f \in DOMAIN values : values[f].changed}
    /\ written = [f \in mutated |-> values[f].value]
    /\ inp = NoInput
    /\ out = NoOutput
    /\ call = NoCall

\* the caller sets the score or the flag, or edits the tags, between two calls
Mutate(f, v) ==
    /\ call.phase # "waiting"
    /\ values' = IF f = "tags" THEN TagsMut(values, v) ELSE ValuesSet(values, f, v)
    /\ last' = OpRecord(IF f = "tags" THEN "tags_mut" ELSE "set", NoOutcome, NoResult)
    /\ mutated' = mutated \cup {f}
    /\ written' = Write(f, v)
    /\ call' = [call EXCEPT !.clean = FALSE]
    /\ UNCHANGED <<cat, last_updated_time, now, inp, out>>

\* the call is made: its request is built and handed to the transport
Dispatch(op, id) ==
    /\ call.phase # "waiting"
    /\ op \in EntryOps => now < MaxNow
    /\ call' = [op |-> op, phase |-> "waiting", id |-> id,
                sent |-> IF RequestOf(op, id) = NoRequest THEN 0 ELSE 1,
                request |-> RequestOf(op, id),
                clean |-> call.clean]
    /\ UNCHANGED <<cat, values, last_updated_time, now, last, mutated, written, inp, out>>

\* what add, add_id, update and update_id do with what send returned: the
\* rest of add_id / update_id and, for add and update, set_last_updated_time
WriteReturns(outcome) ==
    LET r == IF call.op \in EntryOps
             THEN SendEntry(WriteKind(call.op), cat, Entry, outcome, now + 1)
             ELSE [result |-> SendValues(WriteKind(call.op), cat, call.id, values,
                                         outcome).result,
                   entry |-> [Entry EXCEPT !.values =
                                 SendValues(WriteKind(call.op), cat, call.id, values,
                                            outcome).values]]
    IN  /\ values' = r.entry.values
        /\ last_updated_time' = r.entry.last_updated_time
        /\ now' = IF call.op \in EntryOps /\ r.result = ResultOk THEN now + 1 ELSE now
        /\ last' = OpRecord(call.op, outcome, r.result)
        /\ mutated' = IF r.result = ResultOk THEN {} ELSE mutated
        /\ written' = IF r.result = ResultOk THEN NoWrites ELSE written
        /\ call' = [call EXCEPT !.phase = "returned",
                                !.clean = @ \/ r.result = ResultOk]
        /\ UNCHANGED <<cat, inp, out>>

\* an add / update that hands its request to the transport once more when the
\* transport has failed
ReturnWriteOrRetry(outcome) ==
    /\ call.phase = "waiting"
    /\ call.op \in WriteOps
    /\ IF outcome # TransportOk /\ call.sent < 2
       THEN /\ call' = [call EXCEPT !.sent = @ + 1]
            /\ UNCHANGED <<cat, values, last_updated_time, now, last, mutated, written,
                           inp, out>>
       ELSE WriteReturns(outcome)

\* send returns to add, add_id, update or update_id, which returns
ReturnWrite(outcome) ==
    /\ call.phase = "waiting"
    /\ call.op \in WriteOps
    /\ WriteReturns(outcome)

\* send returns to delete or delete_id, which returns
ReturnDelete(outcome) ==
    /\ call.phase = "waiting"
    /\ call.op \in DeleteOps
    /\ LET r == IF call.op = "delete" THEN ListDelete(cat, Entry, outcome)
                ELSE [result |-> ListDeleteId(cat, call.id, outcome).result,
                      entry |-> Entry]
       IN  /\ values' = r.entry.values
           /\ last_updated_time' = r.entry.last_updated_time
           /\ last' = OpRecord(call.op, outcome, r.result)
    /\ call' = [call EXCEPT !.phase = "returned"]
    /\ UNCHANGED <<cat, now, mutated, written, inp, out>>

\* send returns to search_for or read, which decodes the response and returns
ReturnRead(outcome, body) ==
    /\ call.phase = "waiting"
    /\ call.op \in ReadOps
    /\ outcome # TransportOk => body = Malformed
    /\ last' = OpRecord(call.op, outcome,
                        ResultOf(IF call.op = "search_for"
                                 THEN SearchFor(cat, outcome, body)
                                 ELSE Read(cat, outcome, body)))
    /\ call' = [call EXCEPT !.phase = "returned"]
    /\ UNCHANGED <<cat, values, last_updated_time, now, mutated, written, inp, out>>

\* send returns to verify_credentials, which returns
ReturnVerify(outcome) ==
    /\ call.phase = "waiting"
    /\ call.op = "verify_credentials"
    /\ last' = OpRecord(call.op, outcome, ResultOf(VerifyCredentials(outcome)))
    /\ call' = [call EXCEPT !.phase = "returned"]
    /\ UNCHANGED <<cat, values, last_updated_time, now, mutated, written, inp, out>>

\* the response texts the transport answers a search or a list request with
CallBodies == {Malformed, Root(<< >>)}

NextCalls ==
    \/ \E f \in {"score", FlagField(cat)} : \E v \in FieldInputs(cat, f) : Mutate(f, v)
    \/ \E t \in TagsInputs : Mutate("tags", t)
    \/ \E op \in CallOps : \E id \in CallIds(op) : Dispatch(op, id)
    \/ \E outcome \in TransportOutcomes : ReturnWrite(outcome)
    \/ \E outcome \in TransportOutcomes : ReturnDelete(outcome)
    \/ \E outcome \in RequestOutcomes : \E body \in CallBodies : ReturnRead(outcome, body)
    \/ \E outcome \in RequestOutcomes : ReturnVerify(outcome)

SpecCalls == InitCalls /\ [][NextCalls]_vars

(***************************************************************************)
(* Properties of the entry's state machine (specification Spec).           *)
(***************************************************************************)
Changed(vals) == {f \in DOMAIN vals : vals[f].changed}

LastFailed == last.op \in WriteOps /\ last.outcome # TransportOk

LastSucceeded == last.op \in WriteOps /\ last.result = ResultOk

\* C1: when the transport of add, add_id, update or update_id fails, the call
\* returns an error, every field keeps its changed flag and its value, and the
\* entry's last-updated time stays what it was.
C1_FailedWriteChangesNothing ==
    [][LastFailed' =>
          /\ Len(last'.result) > 0
          /\ last'.result[1] = "Err"
          /\ values' = values
          /\ last_updated_time' = last_updated_time]_vars

\* a failed update of an entry all of whose fields are changed, tags edited
C1_Witness ==
    /\ last.op = "update"
    /\ last.outcome = <<"HttpError">>
    /\ Changed(values) = Fields(cat)
    /\ values["tags"].value # << >>

\* C2: a changed flag is cleared by a successful add or update and by nothing
\* else: after a write returns Ok no field is changed, every value is the one
\* from before the call and (add, update) the entry is stamped with the
\* current time; a step that clears a flag is a write whose transport
\* reported success.
C2_ClearedOnlyBySuccess ==
    [][/\ LastSucceeded' =>
             /\ Changed(values') = {}
             /\ \A f \in Fields(cat) : values'[f].value = values[f].value
             /\ last'.op \in EntryOps =>
                    /\ last_updated_time' = now'
                    /\ last_updated_time' > last_updated_time
       /\ Changed(values) \ Changed(values') # {} =>
             /\ LastSucceeded'
             /\ last'.outcome = TransportOk]_vars

\* a successful add, stamped, after which the edited tags are still there
C2_Witness ==
    /\ last.op = "add"
    /\ last.result = ResultOk
    /\ last_updated_time = 1
    /\ Changed(values) = {}
    /\ values["tags"].value # << >>

\* the name a field has in the write body
WireTag(c, f) ==
    CASE f = "watched_episodes" -> "episode"
      [] f = "chapter" -> "chapter"
      [] f = "volume" -> "volume"
      [] f = "status" -> "status"
      [] f = "start_date" -> "date_start"
      [] f = "finish_date" -> "date_finish"
      [] f = "score" -> "score"
      [] f = "rewatching" -> "enable_rewatching"
      [] f = "rereading" -> "enable_rereading"
      [] f = "tags" -> "tags"

\* C3: whatever fields are changed (none, some, all), the write body is one
\* element named "entry" whose children are the wire tags of the changed
\* fields, one child for each, and no child for a field that is not changed.
C3_BodyHasExactlyChangedFields ==
    LET body == GenerateXml(cat, values)
        kids == body.children
    IN  /\ body.name = "entry"
        /\ \A i, j \in DOMAIN kids : kids[i].name = kids[j].name => i = j
        /\ {kids[i].name : i \in DOMAIN kids}
              = {WireTag(cat, f) : f \in Changed(values)}

\* a manga entry with some fields changed and others not
C3_Witness ==
    /\ cat = "manga"
    /\ Changed(values) = {"chapter", "score", "tags"}
    /\ Len(GenerateXml(cat, values).children) = 3

\* C4: whatever the caller has done (setters, tags_mut, getters, failed and
\* successful writes), a field is changed exactly if a setter (tags_mut for the
\* tags) was called on it since the values were made or since the last
\* successful add or update.
C4_ChangedIffMutated ==
    \A f \in Fields(cat) : values[f].changed <=> f \in mutated

\* a field set again after a successful write, next to one not touched since,
\* the latest operation being a failed write
C4_Witness ==
    /\ now = 1
    /\ mutated = {"score"}
    /\ values["tags"].value # << >>
    /\ LastFailed

\* C6: tags_mut marks the tags changed when the handle is taken, whether or
\* not the caller then edits them, and touches no other field; tags() and
\* every other getter leave every flag and every value as they were.
C6_TagsMutMarksGettersDoNot ==
    [][/\ last'.op = "tags_mut" =>
             /\ values'["tags"].changed
             /\ \A f \in Fields(cat) \ {"tags"} : values'[f] = values[f]
       /\ last'.op = "get" => values' = values]_vars

\* tags_mut was called on tags that were not changed, and the caller made no
\* edit: the tags are still empty, and they are changed
C6_Witness ==
    /\ last.op = "tags_mut"
    /\ values["tags"] = [value |-> << >>, changed |-> TRUE]
    /\ mutated = {"tags"}

(***************************************************************************)
(* Properties of the codecs (specification SpecCodec).                     *)
(***************************************************************************)
\* C5: ChangeTracker::new(v) holds v and is not changed; every set(x) leaves
\* the tracker holding x and changed, also when x is the value it held.
C5_NewIsCleanSetAlwaysMarks ==
    (inp.fn = "tracker" /\ out.done) =>
        /\ out.val[1] = [value |-> inp.v, changed |-> FALSE]
        /\ out.val[2] = [value |-> inp.x1, changed |-> TRUE]
        /\ out.val[3] = [value |-> inp.x2, changed |-> TRUE]

\* both sets were given the value the tracker already held
C5_Witness ==
    /\ inp.fn = "tracker"
    /\ out.done
    /\ inp.x1 = inp.v
    /\ inp.x2 = inp.x1
    /\ out.val[2].changed

\* the name of a field's child in a list snapshot entry
SnapshotTag(f) ==
    CASE f = "watched_episodes" -> "my_watched_episodes"
      [] f = "chapter" -> "my_read_chapters"
      [] f = "volume" -> "my_read_volumes"
      [] f = "status" -> "my_status"
      [] f = "score" -> "my_score"
      [] f = "start_date" -> "my_start_date"
      [] f = "finish_date" -> "my_finish_date"
      [] f = "rewatching" -> "my_rewatching"
      [] f = "rereading" -> "my_rereadingg"
      [] f = "tags" -> "my_tags"

ChildText(xml, name) == IF HasChild(xml, name) THEN FindChild(xml, name).text ELSE << >>

\* a text of digits as the number is written: no "+", no leading zeros
Unsigned(text) ==
    StripZeros(IF text # << >> /\ text[1] = "+" THEN Tail(text) ELSE text)

\* the tags joined with the delimiter between them
RECURSIVE JoinWith(_, _)
JoinWith(tags, delim) ==
    IF tags = << >> THEN << >>
    ELSE IF Len(tags) = 1 THEN tags[1]
    ELSE tags[1] \o <<delim>> \o JoinWith(Tail(tags), delim)

RECURSIVE StripLeading(_, _)
StripLeading(text, ch) ==
    IF text # << >> /\ text[1] = ch THEN StripLeading(Tail(text), ch) ELSE text

\* the value `v` of a field of type `type` is what the child's text says
Populated(family, type, text, v) ==
    CASE type \in {"u32", "u8"} -> Decimal(v) = Unsigned(text)
      [] type = "status" -> Decimal(AsI32(family, v)) = Unsigned(text)
      [] type = "bool" -> v <=> (Unsigned(text) = <<"1">>)
      [] type = "date" ->
            /\ text = ZeroDate => v = None
            /\ IsSome(v) =>
                  LET parts == Split(text, <<"-">>, << >>)
                  IN  /\ Len(parts) = 3
                      /\ DigitsValue(parts[1]) = Unwrap(v).y
                      /\ DigitsValue(parts[2]) = Unwrap(v).m
                      /\ DigitsValue(parts[3]) = Unwrap(v).d
      [] type = "tags" ->
            /\ \A i \in DOMAIN v : "," \notin Range(v[i])
            /\ JoinWith(v, ",") = StripLeading(text, ",")
            /\ text = << >> => v = << >>

\* C7: new values have every field at its default and no field changed, and
\* their status is the plan-to-watch / plan-to-read member, index 6, which is
\* not the first member; values decoded from a list snapshot entry have
\* every field holding what the document says and no field changed.
C7_NewAndDecodedValuesAreClean ==
    /\ (inp.fn = "values_new" /\ out.done) =>
          /\ DOMAIN out.val = Fields(inp.c)
          /\ \A f \in Fields(inp.c) :
                LET type == FieldSpec(inp.c, f).type
                    v == out.val[f].value
                IN  /\ ~out.val[f].changed
                    /\ type \in {"u32", "u8"} => v = 0
                    /\ type = "date" => v = None
                    /\ type = "bool" => v = FALSE
                    /\ type = "tags" => v = << >>
                    /\ type = "status" =>
                          /\ v = IF inp.c = "anime" THEN "PlanToWatch" ELSE "PlanToRead"
                          /\ AsI32(StatusFamily(inp.c), v) = 6
                          /\ v # Decl(StatusFamily(inp.c))[1][1]
    /\ (inp.fn \in {"values_parse", "entry_parse"} /\ out.done /\ out.val.ok) =>
          LET vals == IF inp.fn = "values_parse" THEN out.val.val
                      ELSE out.val.val.values
          IN  /\ DOMAIN vals = Fields(inp.c)
              /\ \A f \in Fields(inp.c) :
                    /\ ~vals[f].changed
                    /\ Populated(StatusFamily(inp.c), FieldSpec(inp.c, f).type,
                                 ChildText(inp.xml, SnapshotTag(f)), vals[f].value)

\* an anime entry decoded with progress, a start date, a score and two tags
C7_Witness ==
    /\ inp.fn = "entry_parse"
    /\ inp.c = "anime"
    /\ out.done
    /\ out.val.ok
    /\ out.val.val.values["watched_episodes"].value = 5
    /\ out.val.val.values["start_date"].value = Some([y |-> 2016, m |-> 2, d |-> 29])
    /\ out.val.val.values["tags"].value = << <<"a">>, <<"b">> >>
    /\ out.val.val.values["status"].value = "Watching"

\* C8: for every member of every enum family, from_i32 of the integer the
\* member is written as (`member as i32`) is that member.
C8_FromI32OfAsI32 ==
    (inp.fn = "as_i32" /\ out.done) => out.val.back = Some(inp.member)

\* the member after the gap in the user status indices
C8_Witness ==
    /\ inp.fn = "as_i32"
    /\ out.done
    /\ inp.member = "PlanToRead"
    /\ out.val.index = 6

RecognizedStatusIndices == {1, 2, 3, 4, 6}

Decode(fn, c, xml) == IF fn = "values_parse" THEN ValuesParse(c, xml) ELSE EntryParse(c, xml)

\* C9: from_i32 of a user status family (Status, WatchStatus, ReadStatus)
\* gives a member for 1, 2, 3, 4 and 6 and None for every other integer (0, 5,
\* 7, the negative ones); a list snapshot entry that decodes with a known
\* my_status fails with the unknown-status error, carrying the index, when
\* its my_status is an integer that is not one of those.
C9_UserStatusIndices ==
    /\ (inp.fn = "from_i32" /\ inp.family \in UserStatusFamilies /\ out.done) =>
          (IsSome(out.val) <=> inp.value \in RecognizedStatusIndices)
    /\ (inp.fn \in {"values_parse", "entry_parse"} /\ out.done) =>
          LET index == ParseInt(ChildText(inp.xml, "my_status"), "i32")
          IN  ( /\ HasChild(inp.xml, "my_status")
                /\ IsSome(index)
                /\ Unwrap(index) \notin RecognizedStatusIndices
                /\ Decode(inp.fn, inp.c, ReplaceChildText(inp.xml, "my_status", <<"1">>)).ok )
              => /\ ~out.val.ok
                 /\ out.val.err = <<IF inp.c = "anime" THEN "UnknownWatchStatus"
                                     ELSE "UnknownReadStatus", Unwrap(index)>>

\* a manga list entry whose my_status is 0 was decoded: unknown read status 0
C9_Witness ==
    /\ inp.fn = "entry_parse"
    /\ inp.c = "manga"
    /\ out.done
    /\ ~out.val.ok
    /\ out.val.err = <<"UnknownReadStatus", 0>>

SeriesFamilies == {"AnimeType", "MangaType", "AiringStatus", "PublishingStatus"}

SeriesIndexTags == {"series_type", "series_status"}

\* the entry reports index 0 for its series type or its series status
ReportsIndexZero(xml) ==
    \E name \in SeriesIndexTags : HasChild(xml, name) /\ ChildText(xml, name) = <<"0">>

\* C10, as the specification states it: some series type / series status
\* family has a member for index 0, so that a list snapshot entry reporting
\* index 0 in that field decodes.  The code has no such family: every
\* from_i32 answers None for 0 and the entry fails to decode.
C10_SomeFamilyRecognizesZero ==
    ( /\ out.done
      /\ \/ inp.fn = "from_i32" /\ inp.family \in SeriesFamilies /\ inp.value = 0
         \/ inp.fn = "entry_parse" /\ ReportsIndexZero(inp.xml) )
    => /\ \E fam \in SeriesFamilies : IsSome(FromI32(fam, 0))
       /\ \E c \in Cats : \E b \in BaseDocs(c) : \E name \in SeriesIndexTags :
             EntryParse(c, ReplaceChildText(b, name, <<"0">>)).ok

\* an anime list entry reporting series type 0 was decoded: unknown series type
C10_Witness ==
    /\ inp.fn = "entry_parse"
    /\ inp.c = "anime"
    /\ out.done
    /\ ~out.val.ok
    /\ out.val.err = <<"UnknownSeriesType", <<"0">> >>

\* the label of a member in search results, in lower case
Label(member) ==
    CASE member = "TV" -> <<"t", "v">>
      [] member = "OVA" -> <<"o", "v", "a">>
      [] member = "Movie" -> <<"m", "o", "v", "i", "e">>
      [] member = "Special" -> <<"s", "p", "e", "c", "i", "a", "l">>
      [] member = "ONA" -> <<"o", "n", "a">>
      [] member = "Airing" -> <<"c", "u", "r", "r", "e", "n", "t", "l", "y", " ", "a", "i", "r", "i", "n", "g">>
      [] member = "FinishedAiring" -> <<"f", "i", "n", "i", "s", "h", "e", "d", " ", "a", "i", "r", "i", "n", "g">>
      [] member = "NotYetAired" -> <<"n", "o", "t", " ", "y", "e", "t", " ", "a", "i", "r", "e", "d">>
      [] member = "Manga" -> <<"m", "a", "n", "g", "a">>
      [] member = "Novel" -> <<"n", "o", "v", "e", "l">>
      [] member = "OneShot" -> <<"o", "n", "e", "-", "s", "h", "o", "t">>
      [] member = "Doujinshi" -> <<"d", "o", "u", "j", "i", "n", "s", "h", "i">>
      [] member = "Manhwa" -> <<"m", "a", "n", "h", "w", "a">>
      [] member = "Manhua" -> <<"m", "a", "n", "h", "u", "a">>
      [] member = "Publishing" -> <<"p", "u", "b", "l", "i", "s", "h", "i", "n", "g">>
      [] member = "Finished" -> <<"f", "i", "n", "i", "s", "h", "e", "d">>
      [] member = "NotYetPublished" -> <<"n", "o", "t", " ", "y", "e", "t", " ", "p", "u", "b", "l", "i", "s", "h", "e", "d">>

\* the same text but for the case of the letters A..Z
EqualIgnoringAsciiCase(a, b) ==
    /\ Len(a) = Len(b)
    /\ \A i \in DOMAIN a :
          \/ a[i] = b[i]
          \/ \E k \in DOMAIN LowerChars : {a[i], b[i]} = {LowerChars[k], UpperChars[k]}

IsLabelOf(family, text) ==
    \E m \in Members(family) : EqualIgnoringAsciiCase(text, Label(m))

\* the families of a search result's type and status, and their errors
SearchFamily(c, name) ==
    IF name = "type" THEN (IF c = "anime" THEN "AnimeType" ELSE "MangaType")
    ELSE (IF c = "anime" THEN "AiringStatus" ELSE "PublishingStatus")

SearchUnknownError(c, name) ==
    IF name = "type" THEN "UnknownSeriesType"
    ELSE (IF c = "anime" THEN "UnknownAirStatus" ELSE "UnknownPublishStatus")

\* C11: from_str of a family read from search results gives the member whose
\* label is the text up to the case of its ASCII letters ("TV", "tv", "Tv" are
\* one member) and None for every other text; parse_search_result of a result
\* that decodes but for an unknown type or status label returns the
\* unknown-type / unknown-status error with the text as it was sent, and no
\* search result makes it panic.
C11_FromStrIgnoresCase ==
    /\ (inp.fn = "from_str" /\ out.done) =>
          /\ \A m \in Members(inp.family) :
                (out.val = Some(m)) <=> EqualIgnoringAsciiCase(inp.text, Label(m))
          /\ (out.val = None) <=> ~IsLabelOf(inp.family, inp.text)
    /\ (inp.fn = "search_parse" /\ out.done) =>
          /\ ~out.val.ok => out.val.err[1] # "Panic"
          /\ \A name \in {"type", "status"} :
                LET family == SearchFamily(inp.c, name)
                    label == Label(Decl(family)[1][1])
                IN  ( /\ HasChild(inp.xml, name)
                      /\ ~IsLabelOf(family, ChildText(inp.xml, name))
                      /\ ParseSearchResult(inp.c,
                                           ReplaceChildText(inp.xml, name, label)).ok )
                    => out.val = Err(<<SearchUnknownError(inp.c, name),
                                       ChildText(inp.xml, name)>>)

\* a label written with a capital first letter is the member
C11_Witness ==
    /\ inp.fn = "from_str"
    /\ inp.family = "AnimeType"
    /\ inp.text = <<"T", "v">>
    /\ out.done
    /\ out.val = Some("TV")

Zeros8 == <<"0", "0", "0", "0", "0", "0", "0", "0">>

\* C12: parse_str_date("0000-00-00") is None; date_to_str(None) is the eight
\* characters "00000000"; date_to_str(Some(d)) is the month, the day and the
\* year, MMDDYYYY with nothing between them: eight digits for a year of four
\* digits.
C12_DateSentinelAndFormat ==
    /\ (inp.fn = "parse_str_date" /\ out.done /\ inp.text = ZeroDate) => out.val = None
    /\ (inp.fn = "date_to_str" /\ out.done) =>
          /\ inp.date = None => (out.val = Zeros8 /\ Len(out.val) = 8)
          /\ (IsSome(inp.date) /\ Unwrap(inp.date).y \in 1000..9999) =>
                /\ Len(out.val) = 8
                /\ AllDigits(out.val)
                /\ DigitsValue(SubSeq(out.val, 1, 2)) = Unwrap(inp.date).m
                /\ DigitsValue(SubSeq(out.val, 3, 4)) = Unwrap(inp.date).d
                /\ DigitsValue(SubSeq(out.val, 5, 8)) = Unwrap(inp.date).y

\* a date whose month and day are of one digit was written
C12_Witness ==
    /\ inp.fn = "date_to_str"
    /\ inp.date = Some([y |-> 2017, m |-> 2, d |-> 9])
    /\ out.done
    /\ out.val = <<"0", "2", "0", "9", "2", "0", "1", "7">>

DecodedValues(fn, result) == IF fn = "values_parse" THEN result.val ELSE result.val.values

\* C13: a list snapshot entry whose re-watching / re-reading child is there
\* with an empty text, and whose other fields decode, is decoded without an
\* error, and its flag is false.
C13_BlankFlagIsFalse ==
    ( /\ inp.fn \in {"values_parse", "entry_parse"}
      /\ out.done
      /\ HasChild(inp.xml, FlagTag(inp.c))
      /\ ChildText(inp.xml, FlagTag(inp.c)) = << >>
      /\ Decode(inp.fn, inp.c, ReplaceChildText(inp.xml, FlagTag(inp.c), <<"1">>)).ok )
    => /\ out.val.ok
       /\ DecodedValues(inp.fn, out.val)[FlagField(inp.c)].value = FALSE

\* an entry with every field filled but for a blank flag was decoded
C13_Witness ==
    /\ inp.fn = "entry_parse"
    /\ inp.xml = ReplaceChildText(MangaDocRich, "my_rereadingg", << >>)
    /\ out.done
    /\ out.val.ok
    /\ out.val.val.values["rereading"].value = FALSE
    /\ out.val.val.values["chapter"].value = 12

\* the children a decoder reads from a list snapshot entry
ValuesChildren(c) ==
    IF c = "anime"
    THEN {"my_watched_episodes", "my_start_date", "my_finish_date", "my_status",
          "my_score", "my_rewatching", "my_tags"}
    ELSE {"my_read_chapters", "my_read_volumes", "my_status", "my_score",
          "my_start_date", "my_finish_date", "my_rereadingg", "my_tags"}

SeriesChildren(c) ==
    IF c = "anime"
    THEN {"series_animedb_id", "series_title", "series_synonyms", "series_episodes",
          "series_status", "series_type", "series_start", "series_end",
          "series_image", "my_last_updated"}
    ELSE {"series_mangadb_id", "series_title", "series_synonyms", "series_type",
          "series_chapters", "series_volumes", "series_status", "series_start",
          "series_end", "series_image", "my_last_updated"}

RequiredChildren(fn, c) ==
    IF fn = "values_parse" THEN ValuesChildren(c)
    ELSE ValuesChildren(c) \cup SeriesChildren(c)

\* the integer type of the children decoded as numbers, the flag left out
NumberType(name) ==
    IF name \in {"my_score"} THEN "u8"
    ELSE IF name \in {"my_status", "series_status", "series_type"} THEN "i32"
    ELSE IF name = "my_last_updated" THEN "i64"
    ELSE "u32"

NumberChildren(fn, c) ==
    RequiredChildren(fn, c)
    \ {"my_start_date", "my_finish_date", "my_tags", "series_title", "series_synonyms",
       "series_start", "series_end", "series_image", FlagTag(c)}

\* C14, as the specification states it: decoding a list snapshot entry fails
\* with the missing-node error naming an absent child whenever a child the
\* decoder reads is absent, the re-watching / re-reading flag included, and
\* fails whenever the text of a number other than the flag does not parse.
\* The anime decoder answers false for an absent my_rewatching instead.
C14_AbsentChildIsMissingNodeError ==
    (inp.fn \in {"values_parse", "entry_parse"} /\ out.done) =>
        LET absent == {n \in RequiredChildren(inp.fn, inp.c) : ~HasChild(inp.xml, n)}
            unparsed == {n \in NumberChildren(inp.fn, inp.c) :
                            /\ HasChild(inp.xml, n)
                            /\ ~IsSome(ParseAs(ChildText(inp.xml, n), NumberType(n)))}
        IN  /\ absent # {} =>
                  /\ ~out.val.ok
                  /\ (unparsed = {} =>
                         /\ out.val.err[1] = "MissingXMLNode"
                         /\ out.val.err[2] \in absent)
            /\ unparsed # {} => ~out.val.ok

\* an anime list entry without a my_rewatching child was decoded: it decodes,
\* with the flag false
C14_Witness ==
    /\ inp.fn = "entry_parse"
    /\ inp.c = "anime"
    /\ ~HasChild(inp.xml, "my_rewatching")
    /\ out.done
    /\ out.val.ok
    /\ out.val.val.values["rewatching"].value = FALSE

\* the response had a root element
Fetched == inp.outcome = TransportOk /\ inp.body.wellformed

\* C15: search_for returns Ok with an empty list when the transport reports
\* the no-content status (204); an error for every other transport failure
\* or status; and otherwise, when every child of the response root decodes,
\* one decoded SeriesInfo per child, in document order.
C15_SearchNoContentIsEmpty ==
    (inp.fn = "search_for" /\ out.done) =>
        /\ inp.outcome = NoContent => out.val = Ok(<< >>)
        /\ inp.outcome \notin {NoContent, TransportOk} =>
              /\ ~out.val.ok
              /\ out.val.err = <<"Request">> \o inp.outcome
        /\ (Fetched /\ out.val.ok) =>
              /\ Len(out.val.val) = Len(inp.body.children)
              /\ \A i \in DOMAIN inp.body.children :
                    /\ ParseSearchResult(inp.c, inp.body.children[i]).ok
                    /\ out.val.val[i] = ParseSearchResult(inp.c, inp.body.children[i]).val
        /\ (Fetched /\ \A i \in DOMAIN inp.body.children :
                          ParseSearchResult(inp.c, inp.body.children[i]).ok)
              => out.val.ok

\* a search that got the no-content status returned the empty list
C15_Witness ==
    /\ inp.fn = "search_for"
    /\ inp.outcome = NoContent
    /\ out.done
    /\ out.val.ok
    /\ out.val.val = << >>

\* a search whose response has two different children returned both, in order
C15_WitnessInOrder ==
    /\ inp.fn = "search_for"
    /\ out.done
    /\ out.val.ok
    /\ Len(out.val.val) = 2
    /\ out.val.val[1].id = 7
    /\ out.val.val[2].id # 7

\* C16: read on a fetched document whose root has no child returns the
\* NoUserInfoFound error, never Ok.
C16_ReadOfEmptyRootIsNoUserInfoFound ==
    (inp.fn = "read" /\ out.done /\ Fetched /\ inp.body.children = << >>) =>
        /\ ~out.val.ok
        /\ out.val.err = <<"List", <<"NoUserInfoFound">> >>

\* a read whose document has a root without children was made
C16_Witness ==
    /\ inp.fn = "read"
    /\ inp.outcome = TransportOk
    /\ inp.body = Root(<< >>)
    /\ out.done
    /\ ~out.val.ok

\* C18: read decodes the first child of the root as the user statistics and
\* every later child as one entry: on success there is one entry less than
\* children, in document order; when the statistics or an entry fails to
\* decode, read returns that error (the first one) and no list.
C18_ReadFirstChildIsStatistics ==
    (inp.fn = "read" /\ out.done /\ Fetched /\ inp.body.children # << >>) =>
        LET children == inp.body.children
            user_info == UserInfoParse(inp.c, children[1])
            entry(i) == EntryParse(inp.c, children[i + 1])
            failed == {i \in 1..(Len(children) - 1) : ~entry(i).ok}
        IN  /\ out.val.ok <=> (user_info.ok /\ failed = {})
            /\ out.val.ok =>
                  /\ out.val.val.user_info = user_info.val
                  /\ Len(out.val.val.entries) = Len(children) - 1
                  /\ \A i \in 1..(Len(children) - 1) :
                        out.val.val.entries[i] = entry(i).val
            /\ ~user_info.ok => out.val = Err(<<"List", user_info.err>>)
            /\ (user_info.ok /\ failed # {}) =>
                  \E i \in failed :
                     /\ \A j \in failed : i <= j
                     /\ out.val = Err(<<"List", entry(i).err>>)

\* a read of the statistics and two different entries returned both entries
C18_Witness ==
    /\ inp.fn = "read"
    /\ out.done
    /\ out.val.ok
    /\ Len(inp.body.children) = 3
    /\ Len(out.val.val.entries) = 2
    /\ out.val.val.entries[1] # out.val.val.entries[2]

\* a read whose second entry does not decode returned that entry's error
C18_WitnessEntryFails ==
    /\ inp.fn = "read"
    /\ out.done
    /\ Len(inp.body.children) = 3
    /\ EntryParse(inp.c, inp.body.children[2]).ok
    /\ out.val = Err(<<"List", <<"UnknownWatchStatus", 0>> >>)

\* C20: verify_credentials returns Ok(true) when the transport succeeds,
\* Ok(false) when it reports the unauthorized status (401), and an error for
\* every other transport failure or status.
C20_VerifyCredentialsUnauthorizedIsFalse ==
    (inp.fn = "verify_credentials" /\ out.done) =>
        /\ inp.outcome = TransportOk => out.val = Ok(TRUE)
        /\ inp.outcome = Unauthorized => out.val = Ok(FALSE)
        /\ inp.outcome \notin {TransportOk, Unauthorized} =>
              /\ ~out.val.ok
              /\ out.val.err = <<"Request">> \o inp.outcome

\* verify_credentials got the unauthorized status and answered false
C20_Witness ==
    /\ inp.fn = "verify_credentials"
    /\ inp.outcome = Unauthorized
    /\ out.done
    /\ out.val = Ok(FALSE)

\* C17, as the specification states it: splitting drops the empty segments
\* at the start and at the end: "A; B; " split on "; " is ["A", "B"], and no
\* result begins or ends with an empty string.  The code drops the empty
\* segments at the start only.
C17_SplitDropsEdgeEmpties ==
    (inp.fn = "split_into_vec" /\ out.done) =>
        /\ (inp.text = <<"A", ";", " ", "B", ";", " ">> /\ inp.delim = <<";", " ">>)
              => out.val = << <<"A">>, <<"B">> >>
        /\ out.val # << >> =>
              /\ out.val[1] # << >>
              /\ out.val[Len(out.val)] # << >>

\* "A; B; " was split on "; ": an empty string follows "A" and "B"
C17_Witness ==
    /\ inp.fn = "split_into_vec"
    /\ inp.text = <<"A", ";", " ", "B", ";", " ">>
    /\ inp.delim = <<";", " ">>
    /\ out.done
    /\ out.val = << <<"A">>, <<"B">>, << >> >>

\* the index the service knows a user status by
StatusIndex(member) ==
    CASE member \in {"Watching", "Reading"} -> 1
      [] member = "Completed" -> 2
      [] member = "OnHold" -> 3
      [] member = "Dropped" -> 4
      [] member \in {"PlanToWatch", "PlanToRead"} -> 6

\* a number written in decimal: digits only, no leading zero
IsDecimalOf(text, n) ==
    /\ text # << >>
    /\ AllDigits(text)
    /\ DigitsValue(text) = n
    /\ Len(text) > 1 => text[1] # "0"

\* the text the specification gives a field of the write body
WireTextIs(type, v, text) ==
    CASE type \in {"u32", "u8"} -> IsDecimalOf(text, v)
      [] type = "bool" -> text = IF v THEN <<"1">> ELSE <<"0">>
      [] type = "status" -> IsDecimalOf(text, StatusIndex(v))
      [] type = "date" ->
            IF v = None THEN text = Zeros8
            ELSE /\ Len(text) = 8
                 /\ AllDigits(text)
                 /\ DigitsValue(SubSeq(text, 1, 2)) = Unwrap(v).m
                 /\ DigitsValue(SubSeq(text, 3, 4)) = Unwrap(v).d
                 /\ DigitsValue(SubSeq(text, 5, 8)) = Unwrap(v).y
      [] type = "tags" -> text = JoinWith(v, ",")

\* C19, as the specification states it: in the write body the text of a
\* dirty field is its count or score in decimal, its flag as "0" or "1", its
\* status as the numeric index, its date as MMDDYYYY or "00000000", and its
\* tags joined by a comma that stands between consecutive tags only.  The
\* code writes a comma after every tag, the last one included.
C19_WriteBodyFieldTexts ==
    (inp.fn = "generate_xml" /\ out.done) =>
        /\ Len(out.val.children) = 1
        /\ out.val.children[1].name = WireTag(inp.c, inp.field)
        /\ WireTextIs(FieldSpec(inp.c, inp.field).type, inp.value,
                      out.val.children[1].text)

\* the tags "a" and "b" were written: a comma follows each of them
C19_Witness ==
    /\ inp.fn = "generate_xml"
    /\ inp.field = "tags"
    /\ inp.value = << <<"a">>, <<"b">> >>
    /\ out.done
    /\ out.val.children[1].text = <<"a", ",", "b", ",">>

\* the numeric id of a series or of an entry's series
IdOf(type, x) == IF type = "AnimeEntry" THEN x.series_info.id ELSE x.id

C21_WitnessOtherId ==
    /\ inp.fn = "eq"
    /\ inp.type = "MangaInfo"
    /\ out.done
    /\ ~out.val
    /\ [inp.self EXCEPT !.id = inp.other.id] = inp.other

\* the children a decoder reads as a String and keeps as it is
StringChildren == {"series_title", "series_image"}

\* the children a decoder reads as a String: kept, split, or read as a date
TextChildren ==
    StringChildren \cup {"series_synonyms", "series_start", "series_end",
                         "my_start_date", "my_finish_date", "my_tags"}

\* the field of the series a String child is decoded into
StringField(name) == IF name = "series_title" THEN "title" ELSE "image_url"

\* the children of the document that are there without a text
Blank(xml, names) == {n \in names : HasChild(xml, n) /\ ChildText(xml, n) = << >>}

\* C24, as the specification states it: when a child a decoder reads is there
\* without a text, its text is the empty string: a String field decodes (to
\* "" where the text is kept as it is), a numeric field fails with the
\* conversion error that names the field, and the missing-node error is
\* returned only for a name no child has.  The manga decoder's numeric
\* fields fail with a ParseIntError, which names no field.
C24_BlankTextIsEmptyString ==
    (inp.fn \in {"values_parse", "entry_parse"} /\ out.done) =>
        /\ (~out.val.ok /\ out.val.err[1] = "MissingXMLNode") =>
               ~HasChild(inp.xml, out.val.err[2])
        /\ \A n \in Blank(inp.xml, NumberChildren(inp.fn, inp.c)) :
               /\ ~out.val.ok
               /\ out.val.err = <<"ConversionFailed", n>>
        /\ \A n \in Blank(inp.xml, TextChildren \cap RequiredChildren(inp.fn, inp.c)) :
               Decode(inp.fn, inp.c, ReplaceChildText(inp.xml, n, <<"T">>)).ok =>
                   /\ out.val.ok
                   /\ n \in StringChildren =>
                          out.val.val.series_info[StringField(n)] = << >>

\* a manga list entry whose my_read_chapters child has no text was decoded:
\* the error is the integer parse error, and it names no field
C24_Witness ==
    /\ inp.fn = "entry_parse"
    /\ inp.c = "manga"
    /\ Blank(inp.xml, NumberChildren(inp.fn, inp.c)) = {"my_read_chapters"}
    /\ out.done
    /\ ~out.val.ok
    /\ out.val.err = <<"ParseIntError">>

\* C27: each setter of the anime and of the manga values, and tags_mut,
\* changes only its own field: every other field keeps its value and its
\* changed flag, and the getter of the field returns the value just set.
C27_MutatorChangesOwnFieldOnly ==
    (inp.fn = "mutator" /\ out.done) =>
        /\ DOMAIN out.val.vals = DOMAIN inp.vals
        /\ \A g \in DOMAIN inp.vals \ {GetterOf(inp.method)} :
               out.val.vals[g] = inp.vals[g]
        /\ out.val.got = inp.value

\* set_read_volumes was called on decoded manga values of which the score and
\* the tags were changed: they still are, and volume() returns the new count
C27_Witness ==
    /\ inp.fn = "mutator"
    /\ inp.method = "set_read_volumes"
    /\ Changed(inp.vals) = {"score", "tags"}
    /\ inp.value # inp.vals["volume"].value
    /\ out.done
    /\ Changed(out.val.vals) = {"score", "tags", "volume"}
    /\ out.val.got = inp.value

\* C28, as the specification states it: a list of tags that are not empty
\* and hold no comma survives the round trip: the text the write formatter
\* produces for it, split on ",", is the same list, with no empty string
\* added.  The formatter writes a comma after the last tag and the split
\* keeps the empty segment that follows it.
C28_TagsRoundTrip ==
    (inp.fn = "tags_round_trip" /\ out.done) => out.val.tags = inp.tags

\* the tags "a" and "b c" were written and read back: an empty tag follows
C28_Witness ==
    /\ inp.fn = "tags_round_trip"
    /\ inp.tags = << <<"a">>, <<"b", " ", "c">> >>
    /\ out.done
    /\ out.val.text = <<"a", ",", "b", " ", "c", ",">>
    /\ out.val.tags = << <<"a">>, <<"b", " ", "c">>, << >> >>

\* the date children a decoder reads
DateChildren(fn) ==
    IF fn = "search_parse" THEN {"start_date", "end_date"}
    ELSE IF fn = "values_parse" THEN {"my_start_date", "my_finish_date"}
    ELSE {"my_start_date", "my_finish_date", "series_start", "series_end"}

DecodeAny(fn, c, xml) ==
    IF fn = "search_parse" THEN ParseSearchResult(c, xml) ELSE Decode(fn, c, xml)

\* the date decoded from the child `name`
DecodedDate(fn, result, name) ==
    CASE name = "start_date" -> result.val.start_date
      [] name = "end_date" -> result.val.end_date
      [] name = "series_start" -> result.val.series_info.start_date
      [] name = "series_end" -> result.val.series_info.end_date
      [] name = "my_start_date" -> DecodedValues(fn, result).start_date.value
      [] name = "my_finish_date" -> DecodedValues(fn, result).finish_date.value

\* a date written YYYY-MM-DD: four digits, two digits and two digits that
\* name a day of the calendar
ValidYmd(text) ==
    /\ Len(text) = 10
    /\ text[5] = "-" /\ text[8] = "-"
    /\ AllDigits(SubSeq(text, 1, 4))
    /\ AllDigits(SubSeq(text, 6, 7))
    /\ AllDigits(SubSeq(text, 9, 10))
    /\ IsSome(FromYmdOpt(DigitsValue(SubSeq(text, 1, 4)),
                         DigitsValue(SubSeq(text, 6, 7)),
                         DigitsValue(SubSeq(text, 9, 10))))

\* a one or two digit number, perhaps after white space
ShortNumber(part) ==
    /\ TrimLeft(part) # << >>
    /\ AllDigits(TrimLeft(part))
    /\ Len(TrimLeft(part)) <= 2

\* a year, a month and a day written as numbers with "-" between them that
\* name a day of the calendar: the year of up to four digits, or of any
\* number of digits after a sign; the month and the day of one or two
\* digits; white space may come before each number
AcceptedYmd(text) ==
    LET t == TrimLeft(text)
        signed == t # << >> /\ t[1] \in {"+", "-"}
        parts == Split(IF signed THEN Tail(t) ELSE t, <<"-">>, << >>)
    IN  /\ Len(parts) = 3
        /\ parts[1] # << >>
        /\ AllDigits(parts[1])
        /\ signed \/ Len(parts[1]) <= 4
        /\ Len(StripZeros(parts[1])) <= 6
        /\ ShortNumber(parts[2])
        /\ ShortNumber(parts[3])
        /\ IsSome(FromYmdOpt(IF signed /\ t[1] = "-" THEN 0 - DigitsValue(parts[1])
                             ELSE DigitsValue(parts[1]),
                             DigitsValue(TrimLeft(parts[2])),
                             DigitsValue(TrimLeft(parts[3]))))

\* the date child `name` is there and every other field of the document
\* decodes
DateChildAlone(name) ==
    /\ HasChild(inp.xml, name)
    /\ DecodeAny(inp.fn, inp.c, ReplaceChildText(inp.xml, name, ZeroDate)).ok

\* C29, as the specification states it: a date element whose text is neither
\* "0000-00-00" nor a valid YYYY-MM-DD date decodes to None without an error,
\* so the search result or list entry around it still decodes; a decode
\* fails over a date element only when the element is absent.
C29_InvalidDateIsNone ==
    (inp.fn \in {"search_parse", "values_parse", "entry_parse"} /\ out.done) =>
        \A name \in DateChildren(inp.fn) :
            /\ ~HasChild(inp.xml, name) => ~out.val.ok
            /\ DateChildAlone(name) => out.val.ok
            /\ ( /\ DateChildAlone(name)
                 /\ ChildText(inp.xml, name) # ZeroDate
                 /\ ~ValidYmd(ChildText(inp.xml, name)) )
               => DecodedDate(inp.fn, out.val, name) = None

\* C29, amended: a date element decodes to None without an error when its
\* text is "0000-00-00" or is not a year, a month and a day written as
\* numbers with "-" between them that name a day of the calendar, and to the
\* date otherwise: the month and the day may be of one digit, white space may
\* come before a number and the year may carry a sign.  A decode fails over a
\* date element only when the element is absent.
C29_RejectedDateIsNone ==
    /\ (inp.fn \in {"search_parse", "values_parse", "entry_parse"} /\ out.done) =>
          \A name \in DateChildren(inp.fn) :
              /\ ~HasChild(inp.xml, name) => ~out.val.ok
              /\ DateChildAlone(name) =>
                    /\ out.val.ok
                    /\ DecodedDate(inp.fn, out.val, name) = None
                       <=> \/ ChildText(inp.xml, name) = ZeroDate
                           \/ ~AcceptedYmd(ChildText(inp.xml, name))
    /\ (inp.fn = "parse_str_date" /\ out.done) =>
          (out.val = None <=> (inp.text = ZeroDate \/ ~AcceptedYmd(inp.text)))

\* an anime entry whose my_start_date is the 29th of February of a year that
\* has none was decoded: the date is None and the other fields are there
C29_Witness ==
    /\ inp.fn = "entry_parse"
    /\ inp.xml = ReplaceChildText(AnimeDocRich, "my_start_date",
                                  <<"2", "0", "1", "7", "-", "0", "2", "-", "2", "9">>)
    /\ out.done
    /\ out.val.ok
    /\ out.val.val.values.start_date.value = None
    /\ out.val.val.series_info.start_date = Some([y |-> 2008, m |-> 10, d |-> 2])

\* a manga entry whose series_start is "2017-2-3" was decoded to a date
C29_WitnessUnpadded ==
    /\ inp.fn = "entry_parse"
    /\ inp.xml = ReplaceChildText(MangaDocRich, "series_start",
                                  <<"2", "0", "1", "7", "-", "2", "-", "3">>)
    /\ out.done
    /\ out.val.ok
    /\ out.val.val.series_info.start_date = Some([y |-> 2017, m |-> 2, d |-> 3])

\* a search result without its end_date was decoded: the decode fails
C29_WitnessAbsent ==
    /\ inp.fn = "search_parse"
    /\ inp.xml = WithoutChild(AnimeSearchDoc, "end_date")
    /\ out.done
    /\ ~out.val.ok

\* the text is the integer 1 as text.parse() reads integers: digits that
\* denote 1, perhaps after a "+", and nothing else
DenotesOne(text) ==
    /\ text # << >>
    /\ AllDigits(IF text[1] = "+" THEN Tail(text) ELSE text)
    /\ Unsigned(text) = <<"1">>

\* C30: the decoded re-watching / re-reading flag is true exactly when the
\* text of its element parses as the integer 1: "0", every other number of
\* the integer type, such as "2", and every text that does not parse decode
\* to false, and none of them fails the decode.
C30_FlagIsTrueIffOne ==
    ( /\ inp.fn \in {"values_parse", "entry_parse"}
      /\ out.done
      /\ HasChild(inp.xml, FlagTag(inp.c))
      /\ Decode(inp.fn, inp.c, ReplaceChildText(inp.xml, FlagTag(inp.c), <<"1">>)).ok )
    => /\ out.val.ok
       /\ DecodedValues(inp.fn, out.val)[FlagField(inp.c)].value
          <=> DenotesOne(ChildText(inp.xml, FlagTag(inp.c)))

\* manga values with the flag "2" were decoded: the flag is false
C30_Witness ==
    /\ inp.fn = "values_parse"
    /\ inp.xml = ReplaceChildText(MangaDocPlain, "my_rereadingg", <<"2">>)
    /\ out.done
    /\ out.val.ok
    /\ out.val.val.rereading.value = FALSE

\* an anime entry with the flag "+1" was decoded: the flag is true
C30_WitnessTrue ==
    /\ inp.fn = "entry_parse"
    /\ inp.xml = ReplaceChildText(AnimeDocPlain, "my_rewatching", <<"+", "1">>)
    /\ out.done
    /\ out.val.ok
    /\ out.val.val.values.rewatching.value = TRUE

\* an anime entry with the flag "256", beyond the integer type, was decoded
C30_WitnessOverflow ==
    /\ inp.fn = "entry_parse"
    /\ inp.xml = ReplaceChildText(AnimeDocRich, "my_rewatching", <<"2", "5", "6">>)
    /\ out.done
    /\ out.val.ok
    /\ out.val.val.values.rewatching.value = FALSE

(***************************************************************************)
(* Properties of the calls (specification SpecCalls).                      *)
(***************************************************************************)
\* the kind of request each operation sends
KindOf(op) ==
    CASE op \in {"add", "add_id"} -> "Add"
      [] op \in {"update", "update_id"} -> "Update"
      [] op \in {"delete", "delete_id"} -> "Delete"
      [] op = "search_for" -> "Search"
      [] op = "read" -> "List"
      [] op = "verify_credentials" -> "VerifyCredentials"

\* C22: every operation (search_for, read, add, update, delete,
\* verify_credentials and the id forms) hands exactly one request to the
\* transport per call and returns once the transport has answered it: a call
\* that is waiting for the transport sends nothing more and its next step is
\* its return, with the outcome of that request known; a request that failed
\* is not sent again; nothing is sent while no call is in progress.
C22_OneRequestPerCall ==
    [][ /\ call'.phase = "waiting" =>
              /\ call.phase # "waiting"
              /\ call'.sent = 1
              /\ call'.request.kind = KindOf(call'.op)
        /\ (call.phase = "waiting" /\ call' # call) =>
              /\ call'.phase = "returned"
              /\ call'.sent = 1
              /\ call'.request = call.request
              /\ last'.op = call.op
              /\ last'.outcome \in RequestOutcomes
              /\ last'.result # NoResult
        /\ (call.phase # "waiting" /\ call'.phase # "waiting") =>
              /\ call'.sent = call.sent
              /\ call'.request = call.request ]_vars

\* an update_id whose request failed has returned the error: one request was
\* sent
C22_Witness ==
    /\ call.op = "update_id"
    /\ call.phase = "returned"
    /\ call.sent = 1
    /\ call.request.kind = "Update"
    /\ last = OpRecord("update_id", <<"HttpError">>, ErrRequest(<<"HttpError">>))

\* C23: delete and delete_id change nothing of the entry, whether the
\* transport succeeds or fails: the values with their changed flags and
\* last_updated_time are after the call what they were before it, and the
\* call returns Ok exactly when the transport reports success.
C23_DeleteChangesNothing ==
    [][ /\ (call'.op \in DeleteOps /\ call'.phase = "waiting") =>
              /\ values' = values
              /\ last_updated_time' = last_updated_time
        /\ (call.op \in DeleteOps /\ call.phase = "waiting" /\ call'.phase = "returned") =>
              /\ values' = values
              /\ last_updated_time' = last_updated_time
              /\ last'.op = call.op
              /\ last'.result = ResultOk <=> last'.outcome = TransportOk
              /\ last'.result # ResultOk => last'.result = ErrRequest(last'.outcome) ]_vars

\* a delete of the entry succeeded while its score and tags were changed and
\* not yet written: they still are
C23_Witness ==
    /\ call.op = "delete"
    /\ call.phase = "returned"
    /\ last = OpRecord("delete", TransportOk, ResultOk)
    /\ values["score"].changed
    /\ values["tags"] = [value |-> << <<"a">> >>, changed |-> TRUE]
    /\ mutated = {"score", "tags"}

\* a delete_id failed: the call returned the error
C23_WitnessFailed ==
    /\ call.op = "delete_id"
    /\ call.phase = "returned"
    /\ last = OpRecord("delete_id", <<"BadResponseCode", "400">>,
                       ErrRequest(<<"BadResponseCode", "400">>))
    /\ mutated # {}

\* the children of an element that have the name `name`
ChildrenNamed(children, name) == SelectSeq(children, LAMBDA child : child.name = name)

\* C25: no edit is lost.  Whatever setters, tags_mut calls and failed or
\* successful adds and updates came before, the body of the request an add or
\* update sends has a child for every field a mutator was called on since the
\* last add or update that succeeded, and the child carries the value written
\* to the field last.
C25_NoEditIsLost ==
    (call.phase = "waiting" /\ call.op \in WriteOps) =>
        /\ call.request.body.name = "entry"
        /\ \A f \in mutated :
              ChildrenNamed(call.request.body.children, WireTag(cat, f))
              = <<[name |-> WireTag(cat, f),
                   text |-> XmlValue(cat, FieldSpec(cat, f).type, written[f])]>>

\* the flag, set to false last, and the tags, edited last to the tag "a", are
\* not yet written, and an add_id is sending both, the flag as "0"
C25_Witness ==
    /\ call.op = "add_id"
    /\ call.phase = "waiting"
    /\ last.op = "tags_mut"
    /\ mutated = {FlagField(cat), "tags"}
    /\ written[FlagField(cat)] = FALSE
    /\ written["tags"] = << <<"a">> >>
    /\ call.request.body.children
       = << [name |-> WireTag(cat, FlagField(cat)), text |-> <<"0">>],
            [name |-> "tags", text |-> <<"a", ",">>] >>

\* C26: when an add or update has succeeded and no setter and no tags_mut was
\* called since, the next add or update on the same values, also one that
\* addresses another id, still sends a request, and the body of the request
\* is an element "entry" without children.
C26_CleanWriteSendsEmptyEntry ==
    (call.phase = "waiting" /\ call.op \in WriteOps /\ call.clean) =>
        /\ call.sent = 1
        /\ call.request.kind \in {"Add", "Update"}
        /\ call.request.id = call.id
        /\ call.request.body = [name |-> "entry", children |-> << >>]

\* an update of the entry succeeded and an add_id to another id is sending
\* its request
C26_Witness ==
    /\ last = OpRecord("update", TransportOk, ResultOk)
    /\ call.op = "add_id"
    /\ call.id # EntryId
    /\ call.phase = "waiting"
    /\ call.clean
    /\ call.sent = 1
    /\ call.request.body.children = << >>

====
